---- MODULE Spec2Model ----
(***************************************************************************)
(* The in-process performance layer of OmegaCore-Chatbot2.0: the LRU cache *)
(* with TTL (class LRUCache), the token-bucket rate limiter (class         *)
(* RateLimiter) and the embedding gateway that composes them               *)
(* (generateEmbedding, generateEmbeddings).                                *)
(*                                                                         *)
(* Objects are records, methods are operators that take the object (self)  *)
(* and the value of Date.now() and return the object after the call        *)
(* together with the call's return value.  Time is in milliseconds, as     *)
(* Date.now() is.                                                          *)
(***************************************************************************)
EXTENDS Integers, Sequences, FiniteSets, TLC

VARIABLES
    now,        \* Date.now()
    lru,        \* an LRUCache instance
    limiter,    \* a RateLimiter instance
    ret,        \* the last call made: its name, its arguments, what it returned
    touch,      \* history: the keys held by lru, by their most recent get hit or set, oldest first
    written,    \* history: for each key held by lru, when it was last set and to what
    burst,      \* history: per identifier, the unit checks admitted since its bucket was created
    credit,     \* history: per identifier, the tokens its bucket was refilled with since created
    apiRateLimiters,        \* the middleware's map from route key to RateLimiter
    passed,     \* history: per client, the /api/chat requests the middleware let through
    apiKey,                 \* whether process.env.OPENAI_API_KEY is set
    embeddingCache,         \* the module's embeddingCache
    embeddingRateLimiter,   \* the module's embeddingRateLimiter
    calls,      \* per caller, the generateEmbedding(s) call it has suspended at the provider call
    origin,     \* history: for each key held by embeddingCache, the call that wrote its entry
    provider,   \* history: the texts sent to the provider, and when the bucket was created
    db,                     \* the rows of the "Memory" table
    nextId,                 \* the id the table gives the next row inserted
    queryCache,             \* the module's queryCache
    memoryRateLimiter,      \* the module's memoryRateLimiter
    memo,       \* history: for each key held by queryCache, the arguments of the
                \* searchMemories call that wrote its entry and the list it returned
    tasks       \* per caller, the memory store call it has suspended, and where

cacheVars == <<lru, touch, written>>
limiterVars == <<limiter, burst, credit, apiRateLimiters, passed>>
gatewayVars == <<apiKey, embeddingCache, embeddingRateLimiter, calls, origin, provider>>
storeVars == <<db, nextId, queryCache, memoryRateLimiter, memo, tasks>>
vars == <<now, ret, cacheVars, limiterVars, gatewayVars, storeVars>>

----------------------------------------------------------------------------
(* Bounds of the model *)

MaxTime == 2            \* Date.now() ranges over 0..MaxTime
MaxSize == 2            \* LRUCache instances are constructed with maxSize in -1..MaxSize
MaxTtl == 1             \* ... and ttl in 0..MaxTtl
MaxAccessCount == 2     \* an entry is not touched again once its accessCount reaches this
MaxCapacity == 2        \* RateLimiter instances are constructed with capacity in 1..MaxCapacity
MaxCost == 3            \* isAllowed is called with a cost in 1..MaxCost
MaxWindow == 1          \* ... and windowMs in 0..MaxWindow
MaxBatch == 2           \* generateEmbeddings is called with 0..MaxBatch texts
EmbeddingCacheSize == 1 \* the maxSize embeddingCache is constructed with
EmbeddingRefillRate == 500  \* the refillRate embeddingRateLimiter is constructed with
MaxRows == 2            \* the "Memory" table is given at most MaxRows rows
UpdatesCapacity == 3    \* the capacity of embeddingRateLimiter where two callers update
QueryCacheSize == EmbeddingCacheSize    \* the maxSize queryCache is constructed with
MemoryRefillRate == EmbeddingRefillRate \* the refillRate memoryRateLimiter is constructed with

Keys == {"A", "B", "C"}
Values == {"v1", "v2"}
Identifiers == {"u1", "u2"}
RefillRates == {500, 1000}      \* tokens per second: one token every 2 ms, every 1 ms
CreditRates == RefillRates \cup {1500}     \* and three tokens every 2 ms
Texts == {"hello", "world"}
Vectors == {"e1", "e2"}         \* the embeddings the provider answers with
Callers == {"c1"}
Batches == UNION {[1..n -> Texts] : n \in 0..MaxBatch}
UserIds == {"u1", "u2"}
Contents == {<<"C", "a", "t">>, <<"o", "x">>}
Queries == {<<"c", "A">>, <<"x", ":", "1">>}
Metadatas == {"{tag}"}
Importances == {"high"}
Limits == {1, 2}
Thresholds == {70}              \* 0.7, in hundredths

\* JavaScript's undefined
Absent == "undefined"

\* a Map with no entries
EmptyMap == [k \in {} |-> Absent]

Min(a, b) == IF a <= b THEN a ELSE b
Max(a, b) == IF a >= b THEN a ELSE b

----------------------------------------------------------------------------
(* LRUCache: this.cache is a Map, which iterates in insertion order; it is  *)
(* the sequence of its entries, oldest insertion first, each entry with    *)
(* its key.                                                                *)

\* Map.prototype.has / the position of key in the Map's iteration order (0: not there)
IndexOf(entries, key) ==
    IF \E i \in 1..Len(entries) : entries[i].key = key
    THEN CHOOSE i \in 1..Len(entries) : entries[i].key = key
    ELSE 0

\* Map.prototype.delete
MapDelete(entries, key) ==
    SelectSeq(entries, LAMBDA e : e.key # key)

\* Map.prototype.set: a new key goes last, a key already there keeps its place
MapSet(entries, key, entry) ==
    IF IndexOf(entries, key) = 0
    THEN Append(entries, entry)
    ELSE [i \in 1..Len(entries) |-> IF entries[i].key = key THEN entry ELSE entries[i]]

LRUCache(maxSize, ttl) ==
    [cache |-> <<>>, maxSize |-> maxSize, ttl |-> ttl]

\* LRUCache_get with the move to the most-recently-used end left out
LRUCache_get_NoMove(self, key, t) ==
    LET i == IndexOf(self.cache, key) IN
    IF i = 0 THEN [self |-> self, value |-> Absent]
    ELSE LET entry == self.cache[i] IN
         IF t - entry.timestamp > self.ttl
         THEN [self |-> [self EXCEPT !.cache = MapDelete(@, key)], value |-> Absent]
         ELSE LET touched == [entry EXCEPT !.accessCount = @ + 1] IN
              [self |-> [self EXCEPT !.cache = MapSet(@, key, touched)],
               value |-> entry.value]

\* LRUCache_get with the TTL test written >= instead of >
LRUCache_get_ExpireEarly(self, key, t) ==
    LET i == IndexOf(self.cache, key) IN
    IF i = 0 THEN [self |-> self, value |-> Absent]
    ELSE LET entry == self.cache[i] IN
         IF t - entry.timestamp >= self.ttl
         THEN [self |-> [self EXCEPT !.cache = MapDelete(@, key)], value |-> Absent]
         ELSE LET touched == [entry EXCEPT !.accessCount = @ + 1] IN
              [self |-> [self EXCEPT !.cache = MapSet(MapDelete(@, key), key, touched)],
               value |-> entry.value]

LRUCache_get(self, key, t) ==
    LET i == IndexOf(self.cache, key) IN
    IF i = 0 THEN [self |-> self, value |-> Absent]
    ELSE LET entry == self.cache[i] IN
         IF t - entry.timestamp > self.ttl
         THEN [self |-> [self EXCEPT !.cache = MapDelete(@, key)], value |-> Absent]
         ELSE LET touched == [entry EXCEPT !.accessCount = @ + 1] IN
              [self |-> [self EXCEPT !.cache = MapSet(MapDelete(@, key), key, touched)],
               value |-> entry.value]

\* LRUCache_set with the capacity test written > instead of >=
LRUCache_set_LateEvict(self, key, value, t) ==
    LET i == IndexOf(self.cache, key) IN
    IF i # 0
    THEN LET entry == [self.cache[i] EXCEPT !.value = value,
                                            !.timestamp = t,
                                            !.accessCount = @ + 1] IN
         [self EXCEPT !.cache = MapSet(MapDelete(@, key), key, entry)]
    ELSE LET kept == IF Len(self.cache) > self.maxSize /\ self.cache # <<>>
                     THEN MapDelete(self.cache, Head(self.cache).key)
                     ELSE self.cache IN
         [self EXCEPT !.cache =
             MapSet(kept, key, [key |-> key, value |-> value, timestamp |-> t, accessCount |-> 1])]

LRUCache_set(self, key, value, t) ==
    LET i == IndexOf(self.cache, key) IN
    IF i # 0
    THEN LET entry == [self.cache[i] EXCEPT !.value = value,
                                            !.timestamp = t,
                                            !.accessCount = @ + 1] IN
         [self EXCEPT !.cache = MapSet(MapDelete(@, key), key, entry)]
    ELSE LET kept == IF Len(self.cache) >= self.maxSize /\ self.cache # <<>>
                     THEN MapDelete(self.cache, Head(self.cache).key)
                     ELSE self.cache IN
         [self EXCEPT !.cache =
             MapSet(kept, key, [key |-> key, value |-> value, timestamp |-> t, accessCount |-> 1])]

LRUCache_has(self, key, t) ==
    LET i == IndexOf(self.cache, key) IN
    IF i = 0 THEN [self |-> self, value |-> FALSE]
    ELSE IF t - self.cache[i].timestamp > self.ttl
         THEN [self |-> [self EXCEPT !.cache = MapDelete(@, key)], value |-> FALSE]
         ELSE [self |-> self, value |-> TRUE]

LRUCache_delete(self, key) ==
    [self |-> [self EXCEPT !.cache = MapDelete(@, key)],
     value |-> IndexOf(self.cache, key) # 0]

LRUCache_clear(self) ==
    [self EXCEPT !.cache = <<>>]

\* the keys a cache holds, and the entry of one of them
KeySet(self) == {self.cache[i].key : i \in 1..Len(self.cache)}
EntryOf(self, key) == self.cache[IndexOf(self.cache, key)]

----------------------------------------------------------------------------
(* RateLimiter: this.buckets is a Map from identifier to Bucket; it is a    *)
(* function whose domain is the identifiers that have a bucket.            *)

RateLimiter(capacity, refillRate, windowMs) ==
    [buckets |-> EmptyMap, capacity |-> capacity, refillRate |-> refillRate, windowMs |-> windowMs]

\* Map.prototype.set and Map.prototype.delete on this.buckets
PutBucket(buckets, identifier, bucket) ==
    [i \in DOMAIN buckets \cup {identifier} |-> IF i = identifier THEN bucket ELSE buckets[i]]
DropBuckets(buckets, identifiers) ==
    [i \in DOMAIN buckets \ identifiers |-> buckets[i]]

\* Math.floor(((t - lastRefill) / 1000) * refillRate), in exact arithmetic
TokensToAdd(self, bucket, t) ==
    ((t - bucket.lastRefill) * self.refillRate) \div 1000

\* RateLimiter_isAllowed with the refill not capped at capacity
RateLimiter_isAllowed_NoCap(self, identifier, tokens, t) ==
    LET found == IF identifier \in DOMAIN self.buckets
                 THEN self.buckets[identifier]
                 ELSE [tokens |-> self.capacity, lastRefill |-> t]
        tokensToAdd == TokensToAdd(self, found, t)
        bucket == IF tokensToAdd > 0
                  THEN [tokens |-> found.tokens + tokensToAdd, lastRefill |-> t]
                  ELSE found
    IN  IF bucket.tokens >= tokens
        THEN [self |-> [self EXCEPT !.buckets =
                           PutBucket(@, identifier, [bucket EXCEPT !.tokens = @ - tokens])],
              value |-> TRUE]
        ELSE [self |-> [self EXCEPT !.buckets = PutBucket(@, identifier, bucket)],
              value |-> FALSE]

\* RateLimiter_isAllowed with the admission test written > instead of >=
RateLimiter_isAllowed_Strict(self, identifier, tokens, t) ==
    LET found == IF identifier \in DOMAIN self.buckets
                 THEN self.buckets[identifier]
                 ELSE [tokens |-> self.capacity, lastRefill |-> t]
        tokensToAdd == TokensToAdd(self, found, t)
        bucket == IF tokensToAdd > 0
                  THEN [tokens |-> Min(self.capacity, found.tokens + tokensToAdd),
                        lastRefill |-> t]
                  ELSE found
    IN  IF bucket.tokens > tokens
        THEN [self |-> [self EXCEPT !.buckets =
                           PutBucket(@, identifier, [bucket EXCEPT !.tokens = @ - tokens])],
              value |-> TRUE]
        ELSE [self |-> [self EXCEPT !.buckets = PutBucket(@, identifier, bucket)],
              value |-> FALSE]

\* RateLimiter_isAllowed with bucket.lastRefill = now left out of the refill
RateLimiter_isAllowed_StaleRefill(self, identifier, tokens, t) ==
    LET found == IF identifier \in DOMAIN self.buckets
                 THEN self.buckets[identifier]
                 ELSE [tokens |-> self.capacity, lastRefill |-> t]
        tokensToAdd == TokensToAdd(self, found, t)
        bucket == IF tokensToAdd > 0
                  THEN [found EXCEPT !.tokens = Min(self.capacity, @ + tokensToAdd)]
                  ELSE found
    IN  IF bucket.tokens >= tokens
        THEN [self |-> [self EXCEPT !.buckets =
                           PutBucket(@, identifier, [bucket EXCEPT !.tokens = @ - tokens])],
              value |-> TRUE]
        ELSE [self |-> [self EXCEPT !.buckets = PutBucket(@, identifier, bucket)],
              value |-> FALSE]

RateLimiter_isAllowed(self, identifier, tokens, t) ==
    LET found == IF identifier \in DOMAIN self.buckets
                 THEN self.buckets[identifier]
                 ELSE [tokens |-> self.capacity, lastRefill |-> t]
        tokensToAdd == TokensToAdd(self, found, t)
        bucket == IF tokensToAdd > 0
                  THEN [tokens |-> Min(self.capacity, found.tokens + tokensToAdd),
                        lastRefill |-> t]
                  ELSE found
    IN  IF bucket.tokens >= tokens
        THEN [self |-> [self EXCEPT !.buckets =
                           PutBucket(@, identifier, [bucket EXCEPT !.tokens = @ - tokens])],
              value |-> TRUE]
        ELSE [self |-> [self EXCEPT !.buckets = PutBucket(@, identifier, bucket)],
              value |-> FALSE]

\* RateLimiter_getRemaining returning the stored count, without the refill
RateLimiter_getRemaining_Stored(self, identifier, t) ==
    IF identifier \notin DOMAIN self.buckets
    THEN [self |-> self, value |-> self.capacity]
    ELSE [self |-> self, value |-> Max(0, self.buckets[identifier].tokens)]

RateLimiter_getRemaining(self, identifier, t) ==
    IF identifier \notin DOMAIN self.buckets
    THEN [self |-> self, value |-> self.capacity]
    ELSE LET bucket == self.buckets[identifier]
             currentTokens == Min(self.capacity, bucket.tokens + TokensToAdd(self, bucket, t))
         IN  [self |-> self, value |-> Max(0, currentTokens)]

\* RateLimiter_reset written this.buckets.clear()
RateLimiter_reset_All(self, identifier) ==
    [self EXCEPT !.buckets = EmptyMap]

RateLimiter_reset(self, identifier) ==
    [self EXCEPT !.buckets = DropBuckets(@, {identifier})]

RateLimiter_cleanup(self, t) ==
    [self EXCEPT !.buckets =
        DropBuckets(@, {i \in DOMAIN @ : t - @[i].lastRefill > self.windowMs * 2})]

----------------------------------------------------------------------------
(* The embedding gateway: generateEmbedding and generateEmbeddings over the *)
(* module's embeddingCache and embeddingRateLimiter.  A call runs to its    *)
(* await of openai.embeddings.create, where time passes, and is resumed     *)
(* with the provider's response.                                            *)

\* crypto.createHash('sha256').update(text).digest('hex'): one key per text
hashText(text) == "sha256:" \o text

KeyRequired == "OPENAI_API_KEY is required for embeddings"
RateLimited == "Rate limit exceeded for embeddings. Please try again later."
ProviderError == "openai.embeddings.create rejected"

\* What the part of a call before its await comes to: it returned value, it threw error,
\* or it awaits the provider's answer to request, holding results and uncached.
Returned(value, cache, rateLimiter) ==
    [phase |-> "returned", value |-> value, error |-> Absent,
     cache |-> cache, rateLimiter |-> rateLimiter,
     request |-> <<>>, results |-> <<>>, uncached |-> <<>>]
Threw(error, cache, rateLimiter) ==
    [phase |-> "threw", value |-> Absent, error |-> error,
     cache |-> cache, rateLimiter |-> rateLimiter,
     request |-> <<>>, results |-> <<>>, uncached |-> <<>>]
Awaiting(request, cache, rateLimiter, results, uncached) ==
    [phase |-> "awaiting", value |-> Absent, error |-> Absent,
     cache |-> cache, rateLimiter |-> rateLimiter,
     request |-> request, results |-> results, uncached |-> uncached]

\* generateEmbedding with the rate limit checked before the cache is looked up
generateEmbedding_call_LimitFirst(cache, rateLimiter, keySet, text, t) ==
    IF ~keySet THEN Threw(KeyRequired, cache, rateLimiter)
    ELSE LET allowed == RateLimiter_isAllowed(rateLimiter, "embedding-global", 1, t)
             cached == LRUCache_get(cache, hashText(text), t)
         IN  IF ~allowed.value
             THEN Threw(RateLimited, cache, allowed.self)
             ELSE IF cached.value # Absent
                  THEN Returned(cached.value, cached.self, allowed.self)
                  ELSE Awaiting(<<text>>, cached.self, allowed.self, <<>>, <<>>)

\* generateEmbedding up to its await
generateEmbedding_call(cache, rateLimiter, keySet, text, t) ==
    IF ~keySet THEN Threw(KeyRequired, cache, rateLimiter)
    ELSE LET cacheKey == hashText(text)
             cached == LRUCache_get(cache, cacheKey, t)
         IN  IF cached.value # Absent
             THEN Returned(cached.value, cached.self, rateLimiter)
             ELSE LET allowed == RateLimiter_isAllowed(rateLimiter, "embedding-global", 1, t)
                  IN  IF ~allowed.value
                      THEN Threw(RateLimited, cached.self, allowed.self)
                      ELSE Awaiting(<<text>>, cached.self, allowed.self, <<>>, <<>>)

\* generateEmbedding from its await on: response.ok is whether the provider's promise
\* was fulfilled, response.data the embeddings it was fulfilled with
generateEmbedding_resume(cache, text, response, t) ==
    IF ~response.ok
    THEN [phase |-> "threw", value |-> Absent, error |-> ProviderError, cache |-> cache]
    ELSE LET embedding == response.data[1]
         IN  [phase |-> "returned", value |-> embedding, error |-> Absent,
              cache |-> LRUCache_set(cache, hashText(text), embedding, t)]

\* the loop over texts: results[i] becomes the cached embedding of texts[i], or stays a
\* hole and texts[i] is pushed on uncached
RECURSIVE CheckCache(_, _, _, _, _, _)
CheckCache(cache, texts, i, results, uncached, t) ==
    IF i > Len(texts)
    THEN [cache |-> cache, results |-> results, uncached |-> uncached]
    ELSE LET cached == LRUCache_get(cache, hashText(texts[i]), t)
         IN  IF cached.value # Absent
             THEN CheckCache(cached.self, texts, i + 1,
                             [results EXCEPT ![i] = cached.value], uncached, t)
             ELSE CheckCache(cached.self, texts, i + 1, results,
                             Append(uncached, [index |-> i, text |-> texts[i]]), t)

\* generateEmbeddings debiting a token for every text of the batch
generateEmbeddings_call_WholeBatch(cache, rateLimiter, keySet, texts, t) ==
    IF ~keySet THEN Threw(KeyRequired, cache, rateLimiter)
    ELSE LET looked == CheckCache(cache, texts, 1, [i \in 1..Len(texts) |-> Absent], <<>>, t)
         IN  IF Len(looked.uncached) = 0
             THEN Returned(looked.results, looked.cache, rateLimiter)
             ELSE LET allowed == RateLimiter_isAllowed(rateLimiter, "embedding-global",
                                                       Len(texts), t)
                  IN  IF ~allowed.value
                      THEN Threw(RateLimited, looked.cache, allowed.self)
                      ELSE Awaiting([j \in 1..Len(looked.uncached) |-> looked.uncached[j].text],
                                    looked.cache, allowed.self, looked.results, looked.uncached)

\* generateEmbeddings admitting the first uncached text alone when the batch is denied
generateEmbeddings_call_Partial(cache, rateLimiter, keySet, texts, t) ==
    IF ~keySet THEN Threw(KeyRequired, cache, rateLimiter)
    ELSE LET looked == CheckCache(cache, texts, 1, [i \in 1..Len(texts) |-> Absent], <<>>, t)
         IN  IF Len(looked.uncached) = 0
             THEN Returned(looked.results, looked.cache, rateLimiter)
             ELSE LET tokensNeeded == Len(looked.uncached)
                      allowed == RateLimiter_isAllowed(rateLimiter, "embedding-global",
                                                       tokensNeeded, t)
                      one == RateLimiter_isAllowed(allowed.self, "embedding-global", 1, t)
                  IN  IF allowed.value
                      THEN Awaiting([j \in 1..Len(looked.uncached) |-> looked.uncached[j].text],
                                    looked.cache, allowed.self, looked.results, looked.uncached)
                      ELSE IF one.value
                      THEN Awaiting(<<looked.uncached[1].text>>, looked.cache, one.self,
                                    looked.results, <<looked.uncached[1]>>)
                      ELSE Threw(RateLimited, looked.cache, one.self)

\* generateEmbeddings charging one token for the batch it sends
generateEmbeddings_call_UnitCost(cache, rateLimiter, keySet, texts, t) ==
    IF ~keySet THEN Threw(KeyRequired, cache, rateLimiter)
    ELSE LET looked == CheckCache(cache, texts, 1, [i \in 1..Len(texts) |-> Absent], <<>>, t)
         IN  IF Len(looked.uncached) = 0
             THEN Returned(looked.results, looked.cache, rateLimiter)
             ELSE LET allowed == RateLimiter_isAllowed(rateLimiter, "embedding-global", 1, t)
                  IN  IF ~allowed.value
                      THEN Threw(RateLimited, looked.cache, allowed.self)
                      ELSE Awaiting([j \in 1..Len(looked.uncached) |-> looked.uncached[j].text],
                                    looked.cache, allowed.self, looked.results, looked.uncached)

\* generateEmbeddings up to its await
generateEmbeddings_call(cache, rateLimiter, keySet, texts, t) ==
    IF ~keySet THEN Threw(KeyRequired, cache, rateLimiter)
    ELSE LET looked == CheckCache(cache, texts, 1, [i \in 1..Len(texts) |-> Absent], <<>>, t)
         IN  IF Len(looked.uncached) = 0
             THEN Returned(looked.results, looked.cache, rateLimiter)
             ELSE LET tokensNeeded == Len(looked.uncached)
                      allowed == RateLimiter_isAllowed(rateLimiter, "embedding-global",
                                                       tokensNeeded, t)
                  IN  IF ~allowed.value
                      THEN Threw(RateLimited, looked.cache, allowed.self)
                      ELSE Awaiting([j \in 1..Len(looked.uncached) |-> looked.uncached[j].text],
                                    looked.cache, allowed.self, looked.results, looked.uncached)

\* response.data.forEach: fill in results and cache
RECURSIVE FillIn(_, _, _, _, _, _)
FillIn(cache, results, uncached, data, idx, t) ==
    IF idx > Len(data)
    THEN [cache |-> cache, results |-> results]
    ELSE LET originalIndex == uncached[idx].index
             cacheKey == hashText(uncached[idx].text)
         IN  FillIn(LRUCache_set(cache, cacheKey, data[idx], t),
                    [results EXCEPT ![originalIndex] = data[idx]],
                    uncached, data, idx + 1, t)

\* generateEmbeddings putting the provider's embeddings at the front of its result, in
\* the order they came
generateEmbeddings_resume_DataFirst(cache, results, uncached, response, t) ==
    IF ~response.ok
    THEN [phase |-> "threw", value |-> Absent, error |-> ProviderError, cache |-> cache]
    ELSE LET filled == FillIn(cache, results, uncached, response.data, 1, t)
         IN  [phase |-> "returned",
              value |-> [i \in 1..Len(results) |->
                           IF i <= Len(response.data) THEN response.data[i]
                                                      ELSE filled.results[i]],
              error |-> Absent, cache |-> filled.cache]

\* generateEmbeddings from its await on
generateEmbeddings_resume(cache, results, uncached, response, t) ==
    IF ~response.ok
    THEN [phase |-> "threw", value |-> Absent, error |-> ProviderError, cache |-> cache]
    ELSE LET filled == FillIn(cache, results, uncached, response.data, 1, t)
         IN  [phase |-> "returned", value |-> filled.results, error |-> Absent,
              cache |-> filled.cache]

----------------------------------------------------------------------------
(* The memory store (lib/db/memory.ts) over the "Memory" table, the module's *)
(* queryCache and memoryRateLimiter, and the embedding gateway.  A text is a *)
(* sequence of characters; an optional argument is a sequence of no element  *)
(* (undefined) or of one (the value supplied).  Similarities are in          *)
(* hundredths: 0.8 is 80.                                                    *)

\* the text as a string, for template literals and hashing
RECURSIVE Str(_)
Str(text) == IF text = <<>> THEN "" ELSE Head(text) \o Str(Tail(text))

\* String.prototype.toLowerCase, on the letters the model's texts are made of
LowerCaseOf(c) == CASE c = "A" -> "a" [] c = "C" -> "c" [] c = "T" -> "t" [] OTHER -> c
toLowerCase(text) == [i \in 1..Len(text) |-> LowerCaseOf(text[i])]

\* String.prototype.includes
includes(text, part) ==
    \E i \in 0..(Len(text) - Len(part)) : SubSeq(text, i + 1, i + Len(part)) = part

\* hashQuery with the userId left out of the key
hashQuery_NoUser(userId, query, limit, threshold) ==
    "sha256:" \o Str(query) \o ":" \o ToString(limit) \o ":" \o ToString(threshold)

\* sha256 of `${userId}:${query}:${limit}:${threshold}`: one key per template string
hashQuery(userId, query, limit, threshold) ==
    "sha256:" \o userId \o ":" \o Str(query) \o ":" \o ToString(limit)
              \o ":" \o ToString(threshold)

\* the vector the provider's answer variant gives for the string text, and the text a
\* vector is an embedding of
Embedding(text, variant) == text \o "#" \o variant
TextOf(embedding) ==
    CHOOSE text \in Contents \cup Queries \cup {<<>>} :
        \E variant \in Vectors : embedding = Embedding(Str(text), variant)

\* a row of "Memory"
Row(id, userId, content, embedding, metadata, importance, createdAt, updatedAt) ==
    [id |-> id, userId |-> userId, content |-> content, embedding |-> embedding,
     metadata |-> metadata, importance |-> importance,
     createdAt |-> createdAt, updatedAt |-> updatedAt]

\* a row of a search result: the row's columns and its similarity
Scored(row, similarity) ==
    [id |-> row.id, userId |-> row.userId, content |-> row.content,
     embedding |-> row.embedding, metadata |-> row.metadata, importance |-> row.importance,
     createdAt |-> row.createdAt, updatedAt |-> row.updatedAt, similarity |-> similarity]

\* the orders in which a query may return rows under ORDER BY order DESC, order giving
\* each row its sort key: rows with the same key come in any order
Orderings(rows, order) ==
    {seq \in [1..Cardinality(rows) -> rows] :
        \A i, j \in 1..Cardinality(rows) :
           i < j => (seq[i] # seq[j] /\ order[seq[i]] >= order[seq[j]])}

\* LIMIT
Limit(seq, limit) == SubSeq(seq, 1, Min(limit, Len(seq)))

\* INSERT INTO "Memory" ... RETURNING: id, createdAt and updatedAt are the table's defaults
Db_insert(rows, id, userId, content, embedding, metadata, importance, t) ==
    LET stored == Row(id, userId, content, embedding, metadata, importance, t, t)
    IN  [rows |-> rows \cup {stored}, returning |-> <<stored>>]

\* 1 - (embedding <=> query): the index's cosine similarity, in hundredths.  The same
\* vector scores 100; vectors of texts one of which contains the other but for case
\* score 80; any other two score 60.
Similarity(embedding, queryEmbedding) ==
    LET a == toLowerCase(TextOf(embedding))
        b == toLowerCase(TextOf(queryEmbedding))
    IN  IF embedding = queryEmbedding THEN 100
        ELSE IF includes(a, b) \/ includes(b, a) THEN 80
        ELSE 60

\* Db_similar without the threshold in its WHERE
Db_similar_NoThreshold(rows, userId, queryEmbedding, threshold, limit) ==
    LET found == {Scored(row, Similarity(row.embedding, queryEmbedding)) :
                     row \in {r \in rows : r.userId = userId}}
    IN  {Limit(seq, limit) :
            seq \in Orderings(found, [r \in found |-> r.similarity])}

\* the similarity SELECT: the results it may return
Db_similar(rows, userId, queryEmbedding, threshold, limit) ==
    LET found == {Scored(row, Similarity(row.embedding, queryEmbedding)) :
                     row \in {r \in rows : r.userId = userId}}
        kept == {r \in found : r.similarity >= threshold}
    IN  {Limit(seq, limit) :
            seq \in Orderings(kept, [r \in kept |-> r.similarity])}

\* SELECT ... WHERE "userId" = userId ORDER BY "createdAt" DESC LIMIT limit
Db_selectRecent(rows, userId, limit) ==
    {Limit(seq, limit) :
        seq \in Orderings({r \in rows : r.userId = userId},
                          [r \in rows |-> r.createdAt])}

\* DELETE written without the owner in its WHERE
Db_delete_AnyOwner(rows, id, userId) ==
    LET gone == {r \in rows : r.id = id}
    IN  [rows |-> rows \ gone, returning |-> gone]

\* DELETE FROM "Memory" WHERE id = id AND "userId" = userId RETURNING
Db_delete(rows, id, userId) ==
    LET gone == {r \in rows : r.id = id /\ r.userId = userId}
    IN  [rows |-> rows \ gone, returning |-> gone]

\* the SET of updateMemory leaving the embedding as it is
updateMemory_set_KeepEmbedding(row, content, embeddingArray, metadata, importance, t) ==
    LET c == IF content # <<>> /\ content[1] # <<>> THEN content[1] ELSE row.content
        m == IF metadata # <<>> THEN metadata[1] ELSE row.metadata
        i == IF importance # <<>> THEN importance[1] ELSE row.importance
    IN  Row(row.id, row.userId, c, row.embedding, m, i, row.createdAt, t)

\* the SET of updateMemory: ...(x && { x }) spreads x when it is truthy, which a supplied
\* object, array or non-empty string is and the empty string is not
updateMemory_set(row, content, embeddingArray, metadata, importance, t) ==
    LET c == IF content # <<>> /\ content[1] # <<>> THEN content[1] ELSE row.content
        e == IF embeddingArray # <<>> THEN embeddingArray[1] ELSE row.embedding
        m == IF metadata # <<>> THEN metadata[1] ELSE row.metadata
        i == IF importance # <<>> THEN importance[1] ELSE row.importance
    IN  Row(row.id, row.userId, c, e, m, i, row.createdAt, t)

\* UPDATE "Memory" SET ... WHERE id = id AND "userId" = userId RETURNING
Db_update(rows, id, userId, content, embeddingArray, metadata, importance, t) ==
    LET hit == {r \in rows : r.id = id /\ r.userId = userId}
        updated == {updateMemory_set(r, content, embeddingArray, metadata, importance, t) :
                       r \in hit}
    IN  [rows |-> (rows \ hit) \cup updated, returning |-> updated]

\* fallbackTextSearch's scoring of the rows it selected
fallbackTextSearch_map(results, query) ==
    LET queryLower == toLowerCase(query)
    IN  [k \in 1..Len(results) |->
            LET contentLower == toLowerCase(results[k].content)
                similarity == IF includes(contentLower, queryLower) THEN 80 ELSE 50
            IN  Scored(results[k], similarity)]

----------------------------------------------------------------------------
(* The clock *)

NoCall == [op |-> "none"]
NoProvider == [t0 |-> -1, sent |-> 0]

\* the parts of the state a specification does not use stay as constructed
CacheUnused ==
    lru = LRUCache(1, 0) /\ touch = <<>> /\ written = EmptyMap
LimiterUnused ==
    /\ limiter = RateLimiter(1, 0, 0) /\ burst = EmptyMap /\ credit = EmptyMap
    /\ apiRateLimiters = EmptyMap /\ passed = EmptyMap
GatewayUnused ==
    /\ apiKey = FALSE
    /\ embeddingCache = LRUCache(1, 0)
    /\ embeddingRateLimiter = RateLimiter(1, 0, 0)
    /\ calls = EmptyMap
    /\ origin = EmptyMap
    /\ provider = NoProvider
StoreUnused ==
    /\ db = {}
    /\ nextId = 1
    /\ queryCache = LRUCache(1, 0)
    /\ memoryRateLimiter = RateLimiter(1, 0, 0)
    /\ memo = EmptyMap
    /\ tasks = EmptyMap

Tick ==
    /\ now < MaxTime
    /\ now' = now + 1
    /\ ret' = NoCall
    /\ UNCHANGED <<cacheVars, limiterVars, gatewayVars, storeVars>>

----------------------------------------------------------------------------
(* An LRUCache under any sequence of calls *)

\* the history variables follow a call on lru: key was touched (or not), written (or not),
\* and the keys the call removed are forgotten
Touched(after, key, hit) ==
    LET rest == SelectSeq(touch, LAMBDA k : k \in KeySet(after) /\ ~(hit /\ k = key))
    IN  IF hit /\ key \in KeySet(after) THEN Append(rest, key) ELSE rest

Written(after, key, isSet, value) ==
    [k \in KeySet(after) |->
        IF isSet /\ k = key THEN [at |-> now, value |-> value] ELSE written[k]]

\* ret.value is what get returned, ret.found what has or delete returned
CacheCall(op, key, after, value, found, hit, isSet, stored) ==
    /\ lru' = after
    /\ ret' = [op |-> op, key |-> key, value |-> value, found |-> found,
               removed |-> KeySet(lru) \ KeySet(after)]
    /\ touch' = Touched(after, key, hit)
    /\ written' = Written(after, key, isSet, stored)
    /\ UNCHANGED <<now, limiterVars, gatewayVars, storeVars>>

\* the counter accessCount is kept within MaxAccessCount
MayTouch(self, key) ==
    key \in KeySet(self) => EntryOf(self, key).accessCount < MaxAccessCount

Get(key) ==
    /\ MayTouch(lru, key)
    /\ LET r == LRUCache_get(lru, key, now) IN
       CacheCall("get", key, r.self, r.value, r.value # Absent, r.value # Absent, FALSE, Absent)

Set(key, value) ==
    /\ MayTouch(lru, key)
    /\ CacheCall("set", key, LRUCache_set(lru, key, value, now), Absent, FALSE, TRUE, TRUE, value)

Has(key) ==
    LET r == LRUCache_has(lru, key, now) IN
    CacheCall("has", key, r.self, Absent, r.value, FALSE, FALSE, Absent)

Delete(key) ==
    LET r == LRUCache_delete(lru, key) IN
    CacheCall("delete", key, r.self, Absent, r.value, FALSE, FALSE, Absent)

Clear ==
    CacheCall("clear", Absent, LRUCache_clear(lru), Absent, FALSE, FALSE, FALSE, Absent)

InitCache ==
    /\ now = 0
    /\ \E maxSize \in (0 - 1)..MaxSize, ttl \in 0..MaxTtl : lru = LRUCache(maxSize, ttl)
    /\ ret = NoCall
    /\ touch = <<>>
    /\ written = EmptyMap
    /\ LimiterUnused
    /\ GatewayUnused
    /\ StoreUnused

NextCache ==
    \/ Tick
    \/ \E key \in Keys : Get(key)
    \/ \E key \in Keys, value \in Values : Set(key, value)
    \/ \E key \in Keys : Has(key)
    \/ \E key \in Keys : Delete(key)
    \/ Clear

SpecCache == InitCache /\ [][NextCache]_vars

\* the history variables describe exactly the keys the cache holds
HistoryTracksCache ==
    /\ {touch[i] : i \in 1..Len(touch)} = KeySet(lru)
    /\ Len(touch) = Len(lru.cache)
    /\ DOMAIN written = KeySet(lru)

NoneExpired(self, t) ==
    \A i \in 1..Len(self.cache) : t - self.cache[i].timestamp <= self.ttl

\* C1 (LRU eviction): in a cache with maxSize >= 1 that is full and holds no expired
\* entry, a set of a key the cache does not hold removes exactly one entry, the one whose
\* most recent get hit or set is the oldest (the head of touch), and every other entry
\* stays as it was.
C1_LRUEviction ==
    [][\A key \in Keys :
          ( /\ ret'.op = "set" /\ ret'.key = key
            /\ lru.maxSize >= 1
            /\ key \notin KeySet(lru)
            /\ Len(lru.cache) = lru.maxSize
            /\ NoneExpired(lru, now) )
          => ( /\ touch # <<>>
               /\ KeySet(lru') = (KeySet(lru) \ {Head(touch)}) \cup {key}
               /\ Cardinality(KeySet(lru')) = Len(lru'.cache)
               /\ \A k \in KeySet(lru) \ {Head(touch)} : EntryOf(lru', k) = EntryOf(lru, k) )
      ]_vars

\* maxSize = 2: set A, set B, get A, set C has left A and C and evicted B
C1_Witness ==
    /\ lru.maxSize = 2
    /\ ret.op = "set" /\ ret.key = "C" /\ ret.removed = {"B"}
    /\ touch = <<"A", "C">>
    /\ Len(lru.cache) = 2 /\ lru.cache[1].key = "A" /\ lru.cache[2].key = "C"
    /\ lru.cache[1].accessCount = 2 /\ written["A"].at = lru.cache[1].timestamp
    /\ NoneExpired(lru, now)

\* C2 (cache size invariant): a cache constructed with maxSize >= 1 never holds more
\* than maxSize entries, whatever calls were made and whenever.
C2_SizeInvariant ==
    lru.maxSize >= 1 => Len(lru.cache) <= lru.maxSize

\* a set that found the cache full and left it full
C2_Witness ==
    /\ lru.maxSize >= 1
    /\ ret.op = "set" /\ ret.removed # {}
    /\ Len(lru.cache) = lru.maxSize

\* C3 (TTL expiry): a get of a key the cache holds, last set at t0, returns undefined
\* and removes the entry when now > t0 + ttl, and returns the value last set when
\* now <= t0 + ttl.
C3_TTLExpiry ==
    [][\A key \in Keys :
          ( /\ ret'.op = "get" /\ ret'.key = key
            /\ key \in KeySet(lru) /\ key \in DOMAIN written )
          => IF now > written[key].at + lru.ttl
             THEN ret'.value = Absent /\ key \notin KeySet(lru')
             ELSE ret'.value = written[key].value /\ key \in KeySet(lru')
      ]_vars

\* a get that found its key expired: ttl = 1, set at t0, read at t0 + 2
C3_Witness ==
    /\ ret.op = "get" /\ ret.value = Absent /\ ret.removed = {ret.key}
    /\ lru.ttl = 1 /\ now = 2

----------------------------------------------------------------------------
(* A RateLimiter under any sequence of calls at non-decreasing times *)

NoBurst == [t0 |-> -1, n |-> 0, t1 |-> -1, m |-> 0, closed |-> FALSE]

\* The history of one identifier as a call for it is made.  t0, n: its bucket was created
\* at t0 by a unit check, and n unit checks, all at t0 and all admitted, are all the calls
\* made for it up to the capacity-th admission.  t1, m, closed: after those, the unit checks
\* made at one later instant t1 (or at t0 itself): m admitted, then one denied (closed).
\* Any other call for the identifier, and the loss of its bucket, ends the history.
BurstAfter(b, fresh, cost, admitted) ==
    IF cost # 1 THEN NoBurst
    ELSE IF fresh
        THEN IF admitted THEN [NoBurst EXCEPT !.t0 = now, !.n = 1] ELSE NoBurst
    ELSE IF b.t0 < 0 THEN NoBurst
    ELSE IF b.n < limiter.capacity
        THEN IF now = b.t0 /\ admitted THEN [b EXCEPT !.n = @ + 1] ELSE NoBurst
    ELSE IF b.closed
        THEN IF b.t1 = b.t0 /\ b.m = 0 /\ now > b.t1
             THEN [b EXCEPT !.t1 = now, !.m = IF admitted THEN 1 ELSE 0, !.closed = ~admitted]
             ELSE NoBurst
    ELSE IF b.t1 < 0 \/ b.t1 = now
        THEN IF admitted THEN [b EXCEPT !.t1 = now, !.m = @ + 1]
                         ELSE [b EXCEPT !.t1 = now, !.closed = TRUE]
    ELSE NoBurst

NoCredit == [t0 |-> -1, added |-> 0, below |-> TRUE]

\* The refill history of one identifier as isAllowed returns for it.  t0: when its bucket
\* was created; added: the tokens the calls since have put into it (the count it holds
\* before the debit, less the count it held); below: each of those calls left it under
\* capacity before the debit.
CreditAfter(identifier, tokens, after, allowed) ==
    IF identifier \notin DOMAIN limiter.buckets
    THEN [t0 |-> now, added |-> 0, below |-> TRUE]
    ELSE LET refilled == after.buckets[identifier].tokens + (IF allowed THEN tokens ELSE 0)
         IN  [t0 |-> credit[identifier].t0,
              added |-> credit[identifier].added + refilled - limiter.buckets[identifier].tokens,
              below |-> credit[identifier].below /\ refilled < limiter.capacity]

\* ret.allowed is what isAllowed returned, ret.remaining what getRemaining returned
LimiterCall(op, identifier, tokens, after, allowed, remaining, history) ==
    /\ limiter' = after
    /\ ret' = [op |-> op, identifier |-> identifier, tokens |-> tokens,
               allowed |-> allowed, remaining |-> remaining,
               created |-> DOMAIN after.buckets \ DOMAIN limiter.buckets,
               removed |-> DOMAIN limiter.buckets \ DOMAIN after.buckets]
    /\ burst' = [i \in Identifiers |->
                    IF i \in DOMAIN limiter.buckets \ DOMAIN after.buckets THEN NoBurst
                    ELSE IF i = identifier THEN history
                    ELSE burst[i]]
    /\ UNCHANGED <<now, credit, apiRateLimiters, passed, cacheVars, gatewayVars, storeVars>>

IsAllowed(identifier, tokens) ==
    LET r == RateLimiter_isAllowed(limiter, identifier, tokens, now) IN
    LimiterCall("isAllowed", identifier, tokens, r.self, r.value, 0,
                BurstAfter(burst[identifier], identifier \notin DOMAIN limiter.buckets,
                           tokens, r.value))

GetRemaining(identifier) ==
    LET r == RateLimiter_getRemaining(limiter, identifier, now) IN
    LimiterCall("getRemaining", identifier, 0, r.self, FALSE, r.value, NoBurst)

Reset(identifier) ==
    LimiterCall("reset", identifier, 0, RateLimiter_reset(limiter, identifier), FALSE, 0, NoBurst)

Cleanup ==
    LimiterCall("cleanup", Absent, 0, RateLimiter_cleanup(limiter, now), FALSE, 0, NoBurst)

InitLimiter ==
    /\ now = 0
    /\ CacheUnused
    /\ GatewayUnused
    /\ StoreUnused
    /\ \E capacity \in 1..MaxCapacity, refillRate \in RefillRates, windowMs \in 0..MaxWindow :
          limiter = RateLimiter(capacity, refillRate, windowMs)
    /\ ret = NoCall
    /\ burst = [i \in Identifiers |-> NoBurst]
    /\ credit = [i \in Identifiers |-> NoCredit]
    /\ apiRateLimiters = EmptyMap /\ passed = EmptyMap

NextLimiter ==
    \/ Tick
    \/ \E identifier \in Identifiers, tokens \in 1..MaxCost : IsAllowed(identifier, tokens)
    \/ \E identifier \in Identifiers : GetRemaining(identifier)
    \/ \E identifier \in Identifiers : Reset(identifier)
    \/ Cleanup

SpecLimiter == InitLimiter /\ [][NextLimiter]_vars

\* The limiter with the refill history of its buckets kept: isAllowed and reset, at the
\* rates of CreditRates.
CreditCall(op, identifier, tokens, after, allowed) ==
    /\ limiter' = after
    /\ ret' = [op |-> op, identifier |-> identifier, tokens |-> tokens,
               allowed |-> allowed, remaining |-> 0,
               created |-> DOMAIN after.buckets \ DOMAIN limiter.buckets,
               removed |-> DOMAIN limiter.buckets \ DOMAIN after.buckets]
    /\ credit' = [i \in Identifiers |->
                     IF i \notin DOMAIN after.buckets THEN NoCredit
                     ELSE IF i = identifier /\ op = "isAllowed"
                         THEN CreditAfter(identifier, tokens, after, allowed)
                     ELSE credit[i]]
    /\ UNCHANGED <<now, burst, apiRateLimiters, passed, cacheVars, gatewayVars, storeVars>>

IsAllowedCredit(identifier, tokens) ==
    LET r == RateLimiter_isAllowed(limiter, identifier, tokens, now) IN
    CreditCall("isAllowed", identifier, tokens, r.self, r.value)

ResetCredit(identifier) ==
    CreditCall("reset", identifier, 0, RateLimiter_reset(limiter, identifier), FALSE)

InitCredit ==
    /\ now = 0
    /\ CacheUnused
    /\ GatewayUnused
    /\ StoreUnused
    /\ \E capacity \in 1..MaxCapacity, refillRate \in CreditRates :
          limiter = RateLimiter(capacity, refillRate, 0)
    /\ ret = NoCall
    /\ burst = [i \in Identifiers |-> NoBurst]
    /\ credit = [i \in Identifiers |-> NoCredit]
    /\ apiRateLimiters = EmptyMap /\ passed = EmptyMap

NextCredit ==
    \/ Tick
    \/ \E identifier \in Identifiers, tokens \in 1..MaxCost : IsAllowedCredit(identifier, tokens)
    \/ \E identifier \in Identifiers : ResetCredit(identifier)

SpecCredit == InitCredit /\ [][NextCredit]_vars

\* C4 (token-bucket invariant): every bucket holds between 0 and capacity tokens.
C4_TokenBounds ==
    \A i \in DOMAIN limiter.buckets :
        0 <= limiter.buckets[i].tokens /\ limiter.buckets[i].tokens <= limiter.capacity

\* a partly spent bucket refilled to capacity by a check whose cost is above capacity
C4_Witness ==
    \E i \in DOMAIN limiter.buckets :
        /\ ret.op = "isAllowed" /\ ret.identifier = i /\ ~ret.allowed
        /\ ret.created = {} /\ ret.tokens > limiter.capacity
        /\ limiter.buckets[i].tokens = limiter.capacity
        /\ limiter.buckets[i].lastRefill = now /\ now > 0

\* the token count isAllowed compares with the cost: capacity for an identifier with no
\* bucket, else the bucket's tokens plus floor(elapsed x refillRate), capped at capacity
Refilled(self, identifier, t) ==
    IF identifier \in DOMAIN self.buckets
    THEN Min(self.capacity,
             self.buckets[identifier].tokens
               + ((t - self.buckets[identifier].lastRefill) * self.refillRate) \div 1000)
    ELSE self.capacity

\* C5 (admission rule): isAllowed(id, cost) returns true and leaves refilled - cost
\* tokens when the refilled count is >= cost, and otherwise returns false and leaves
\* the refilled count.
C5_AdmissionRule ==
    [][\A i \in Identifiers :
          (ret'.op = "isAllowed" /\ ret'.identifier = i)
          => /\ i \in DOMAIN limiter'.buckets
             /\ IF Refilled(limiter, i, now) >= ret'.tokens
                THEN /\ ret'.allowed = TRUE
                     /\ limiter'.buckets[i].tokens = Refilled(limiter, i, now) - ret'.tokens
                ELSE /\ ret'.allowed = FALSE
                     /\ limiter'.buckets[i].tokens = Refilled(limiter, i, now)
      ]_vars

\* a denial that left a refilled, non-zero token count in place
C5_Witness ==
    \E i \in DOMAIN limiter.buckets :
        /\ ret.op = "isAllowed" /\ ret.identifier = i /\ ~ret.allowed
        /\ ret.created = {} /\ ret.tokens <= limiter.capacity
        /\ limiter.buckets[i].tokens > 0
        /\ limiter.buckets[i].lastRefill = now /\ now > 0

C7_Independence ==
    [][\A a \in Identifiers :
          (ret'.op \in {"isAllowed", "getRemaining", "reset"} /\ ret'.identifier = a)
          => \A b \in Identifiers \ {a} :
                /\ (b \in DOMAIN limiter'.buckets) = (b \in DOMAIN limiter.buckets)
                /\ b \in DOMAIN limiter.buckets => limiter'.buckets[b] = limiter.buckets[b]
      ]_vars

\* a reset that dropped one identifier's bucket while another's, partly spent, stayed
C7_Witness ==
    /\ ret.op = "reset" /\ ret.removed = {ret.identifier}
    /\ \E b \in DOMAIN limiter.buckets :
          b # ret.identifier /\ limiter.buckets[b].tokens < limiter.capacity

----------------------------------------------------------------------------
(* The embedding gateway under any sequence of calls, each suspended at its  *)
(* provider call while time passes                                           *)

Idle == [pc |-> "idle"]

\* whether a cache holds an entry for key that has not expired at t, and its value
Live(self, key, t) ==
    key \in KeySet(self) /\ t - EntryOf(self, key).timestamp <= self.ttl
LiveValue(self, key, t) ==
    IF Live(self, key, t) THEN EntryOf(self, key).value ELSE Absent

\* the counters accessCount are kept within MaxAccessCount
WithinCounts(self) ==
    \A i \in 1..Len(self.cache) : self.cache[i].accessCount <= MaxAccessCount

\* the provider's answers to a request: an embedding per input, in order, or a rejection
Responses(request) ==
    {[ok |-> FALSE, data |-> <<>>]}
      \cup {[ok |-> TRUE, data |-> data] : data \in [1..Len(request) -> Vectors]}

\* the history of the entries that stay in the cache
Kept(after) ==
    [k \in DOMAIN origin \cap KeySet(after) |-> origin[k]]

\* the history after the call fn cached the embeddings of request, which it returned at
\* the positions indices of value
Wrote(after, fn, request, indices, value) ==
    [k \in KeySet(after) |->
        IF \E j \in 1..Len(request) : hashText(request[j]) = k
        THEN LET last == CHOOSE j \in 1..Len(request) :
                            /\ hashText(request[j]) = k
                            /\ \A l \in (j + 1)..Len(request) : hashText(request[l]) # k
             IN  [op |-> fn, vector |-> value[indices[last]], requests |-> 1]
        ELSE origin[k]]

\* ret.value is the embeddings the call returned, one per text; ret.seen the live cached
\* embedding of each text when the call was made; ret.request the input of the provider
\* call the step made; ret.response the provider's embeddings the step resumed with
GatewayCallStep(fn, caller, texts, out, value) ==
    /\ calls[caller].pc = "idle"
    /\ WithinCounts(out.cache)
    /\ embeddingCache' = out.cache
    /\ embeddingRateLimiter' = out.rateLimiter
    /\ LET seen == [i \in 1..Len(texts) |->
                       LiveValue(embeddingCache, hashText(texts[i]), now)]
       IN  /\ calls' = [calls EXCEPT ![caller] =
                          IF out.phase = "awaiting"
                          THEN [pc |-> "awaiting", fn |-> fn, texts |-> texts,
                                request |-> out.request, results |-> out.results,
                                uncached |-> out.uncached, seen |-> seen]
                          ELSE Idle]
           /\ ret' = [op |-> fn, step |-> "call", caller |-> caller, texts |-> texts,
                      phase |-> out.phase, value |-> value, error |-> out.error,
                      request |-> out.request, seen |-> seen, response |-> <<>>]
    /\ origin' = Kept(out.cache)
    /\ UNCHANGED <<now, apiKey, cacheVars, limiterVars, storeVars>>

GatewayCall(fn, caller, texts, out, value) ==
    GatewayCallStep(fn, caller, texts, out, value) /\ UNCHANGED provider

Call_generateEmbedding(caller, text) ==
    LET out == generateEmbedding_call(embeddingCache, embeddingRateLimiter, apiKey, text, now)
    IN  GatewayCall("generateEmbedding", caller, <<text>>, out,
                    IF out.phase = "returned" THEN <<out.value>> ELSE <<>>)

Call_generateEmbeddings(caller, texts) ==
    LET out == generateEmbeddings_call(embeddingCache, embeddingRateLimiter, apiKey, texts, now)
    IN  GatewayCall("generateEmbeddings", caller, texts, out,
                    IF out.phase = "returned" THEN out.value ELSE <<>>)

GatewayResume(caller, response, out, value, indices) ==
    /\ WithinCounts(out.cache)
    /\ embeddingCache' = out.cache
    /\ calls' = [calls EXCEPT ![caller] = Idle]
    /\ ret' = [op |-> calls[caller].fn, step |-> "resume", caller |-> caller,
               texts |-> calls[caller].texts, phase |-> out.phase, value |-> value,
               error |-> out.error, request |-> <<>>,
               seen |-> calls[caller].seen, response |-> response.data]
    /\ origin' = IF out.phase = "returned"
                 THEN Wrote(out.cache, calls[caller].fn, calls[caller].request, indices, value)
                 ELSE Kept(out.cache)
    /\ UNCHANGED <<now, apiKey, embeddingRateLimiter, provider, cacheVars, limiterVars, storeVars>>

Resume_generateEmbedding(caller, response) ==
    /\ calls[caller].pc = "awaiting"
    /\ calls[caller].fn = "generateEmbedding"
    /\ response \in Responses(calls[caller].request)
    /\ LET out == generateEmbedding_resume(embeddingCache, calls[caller].texts[1],
                                           response, now)
       IN  GatewayResume(caller, response, out,
                         IF out.phase = "returned" THEN <<out.value>> ELSE <<>>, <<1>>)

Resume_generateEmbeddings(caller, response) ==
    /\ calls[caller].pc = "awaiting"
    /\ calls[caller].fn = "generateEmbeddings"
    /\ response \in Responses(calls[caller].request)
    /\ LET out == generateEmbeddings_resume(embeddingCache, calls[caller].results,
                                            calls[caller].uncached, response, now)
       IN  GatewayResume(caller, response, out,
                         IF out.phase = "returned" THEN out.value ELSE <<>>,
                         [j \in 1..Len(calls[caller].uncached) |->
                             calls[caller].uncached[j].index])

InitGateway ==
    /\ now = 0
    /\ ret = NoCall
    /\ CacheUnused
    /\ LimiterUnused
    /\ StoreUnused
    /\ apiKey \in BOOLEAN
    /\ embeddingCache = LRUCache(EmbeddingCacheSize, MaxTtl)
    /\ embeddingRateLimiter = RateLimiter(MaxCapacity, EmbeddingRefillRate, MaxWindow)
    /\ calls = [c \in Callers |-> Idle]
    /\ origin = EmptyMap
    /\ provider = NoProvider

NextGateway ==
    \/ Tick
    \/ \E caller \in Callers, text \in Texts : Call_generateEmbedding(caller, text)
    \/ \E caller \in Callers, texts \in Batches : Call_generateEmbeddings(caller, texts)
    \/ \E caller \in Callers, data \in [1..1 -> Vectors], ok \in BOOLEAN :
          Resume_generateEmbedding(caller, [ok |-> ok, data |-> IF ok THEN data ELSE <<>>])
    \/ \E caller \in Callers, n \in 1..MaxBatch, ok \in BOOLEAN :
          \E data \in [1..n -> Vectors] :
             Resume_generateEmbeddings(caller, [ok |-> ok, data |-> IF ok THEN data ELSE <<>>])

SpecGateway == InitGateway /\ [][NextGateway]_vars

\* Two callers of the gateway, their calls interleaving at the provider call; the texts
\* the calls send to the provider are counted.
Interleaved == {"c1", "c2"}
\* the batches they ask for: one text or more, none twice
InterleavedBatches ==
    {texts \in Batches : /\ Len(texts) >= 1
                         /\ \A i, j \in 1..Len(texts) : i # j => texts[i] # texts[j]}

\* the history after a call step: the bucket's creation time once it is created, and the
\* texts sent so far
ProviderAfter(out) ==
    [t0 |-> IF provider.t0 < 0 /\ "embedding-global" \in DOMAIN out.rateLimiter.buckets
            THEN now ELSE provider.t0,
     sent |-> provider.sent + (IF out.phase = "awaiting" THEN Len(out.request) ELSE 0)]

Send_generateEmbedding(caller, text) ==
    LET out == generateEmbedding_call(embeddingCache, embeddingRateLimiter, apiKey, text, now)
    IN  /\ GatewayCallStep("generateEmbedding", caller, <<text>>, out,
                           IF out.phase = "returned" THEN <<out.value>> ELSE <<>>)
        /\ provider' = ProviderAfter(out)

Send_generateEmbeddings(caller, texts) ==
    LET out == generateEmbeddings_call(embeddingCache, embeddingRateLimiter, apiKey, texts, now)
    IN  /\ GatewayCallStep("generateEmbeddings", caller, texts, out,
                           IF out.phase = "returned" THEN out.value ELSE <<>>)
        /\ provider' = ProviderAfter(out)

InitInterleaved ==
    /\ now = 0
    /\ ret = NoCall
    /\ CacheUnused
    /\ LimiterUnused
    /\ StoreUnused
    /\ apiKey = TRUE
    /\ embeddingCache = LRUCache(EmbeddingCacheSize, MaxTtl)
    /\ embeddingRateLimiter = RateLimiter(MaxCapacity, EmbeddingRefillRate, MaxWindow)
    /\ calls = [c \in Interleaved |-> Idle]
    /\ origin = EmptyMap
    /\ provider = NoProvider

NextInterleaved ==
    \/ Tick
    \/ \E caller \in Interleaved, text \in Texts : Send_generateEmbedding(caller, text)
    \/ \E caller \in Interleaved, texts \in InterleavedBatches :
          Send_generateEmbeddings(caller, texts)
    \/ \E caller \in Interleaved, ok \in BOOLEAN :
          Resume_generateEmbedding(caller, [ok |-> ok,
                                            data |-> IF ok THEN <<"e1">> ELSE <<>>])
    \/ \E caller \in Interleaved, n \in 1..MaxBatch, ok \in BOOLEAN :
          Resume_generateEmbeddings(caller, [ok |-> ok,
                                             data |-> IF ok THEN [i \in 1..n |-> "e1"]
                                                            ELSE <<>>])

SpecInterleaved == InitInterleaved /\ [][NextInterleaved]_vars

\* the texts of a batch with no live entry in the cache at t, in the order of the batch
Missing(self, texts, t) ==
    SelectSeq(texts, LAMBDA text : ~Live(self, hashText(text), t))

\* C8: a generateEmbedding(text) call made after a generateEmbedding call for the same
\* text has returned, while the entry that call cached has neither expired nor been
\* evicted, returns the vector that call returned, makes no provider call and leaves
\* the rate limiter as it was; the two calls together made one provider call.
C8_EmbeddingIdempotence ==
    [][\A text \in Texts :
          (/\ ret'.op = "generateEmbedding" /\ ret'.step = "call" /\ ret'.texts = <<text>>
           /\ Live(embeddingCache, hashText(text), now)
           /\ origin[hashText(text)].op = "generateEmbedding")
          => /\ ret'.phase = "returned"
             /\ ret'.value = <<origin[hashText(text)].vector>>
             /\ ret'.request = <<>>
             /\ calls'[ret'.caller] = Idle
             /\ embeddingRateLimiter' = embeddingRateLimiter
             /\ origin[hashText(text)].requests + Len(ret'.request) = 1]_vars

C8_Witness ==
    /\ ret.op = "generateEmbedding" /\ ret.step = "call" /\ ret.phase = "returned"
    /\ origin[hashText(ret.texts[1])].op = "generateEmbedding"
    /\ "embedding-global" \in DOMAIN embeddingRateLimiter.buckets
    /\ embeddingRateLimiter.buckets["embedding-global"].tokens > 0

\* C9: generateEmbeddings(texts) makes at most one provider call, at its await and with
\* exactly the texts that have no live cache entry as input, and debits that many tokens
\* from the 'embedding-global' bucket; when every text has a live entry it makes no
\* provider call and leaves the rate limiter as it was.
C9_BatchPartitioning ==
    [][ret'.op = "generateEmbeddings" =>
          IF ret'.step = "call" /\ apiKey
          THEN LET missing == Missing(embeddingCache, ret'.texts, now)
                   had == Refilled(embeddingRateLimiter, "embedding-global", now)
               IN  IF missing = <<>>
                   THEN /\ ret'.phase = "returned"
                        /\ ret'.request = <<>>
                        /\ embeddingRateLimiter' = embeddingRateLimiter
                   ELSE \/ /\ ret'.phase = "awaiting"
                           /\ ret'.request = missing
                           /\ embeddingRateLimiter'.buckets["embedding-global"].tokens
                                = had - Len(missing)
                        \/ /\ ret'.phase = "threw"
                           /\ ret'.request = <<>>
                           /\ had < Len(missing)
          ELSE /\ ret'.request = <<>>
               /\ embeddingRateLimiter' = embeddingRateLimiter]_vars

C9_Witness ==
    /\ ret.op = "generateEmbeddings" /\ ret.step = "call" /\ ret.phase = "awaiting"
    /\ Len(ret.request) >= 1
    /\ Len(ret.request) < Len(ret.texts)

\* the number of texts up to position i of a batch that had no live cache entry
Rank(seen, i) == Cardinality({j \in 1..i : seen[j] = Absent})

\* C10: a generateEmbeddings(texts) call that returns, returns one vector per text, at
\* the text's index: the cached vector of texts[i] where it had a live cache entry, and
\* otherwise the vector the provider answered for texts[i].
C10_BatchOrder ==
    (ret.op = "generateEmbeddings" /\ ret.phase = "returned")
    => /\ Len(ret.value) = Len(ret.texts)
       /\ \A i \in 1..Len(ret.texts) :
             ret.value[i] = IF ret.seen[i] # Absent
                            THEN ret.seen[i]
                            ELSE ret.response[Rank(ret.seen, i)]

C10_Witness ==
    /\ ret.op = "generateEmbeddings" /\ ret.phase = "returned" /\ ret.step = "resume"
    /\ \E i, j \in 1..Len(ret.texts) :
          i < j /\ ret.seen[i] # Absent /\ ret.seen[j] = Absent

\* C16: a generateEmbedding or generateEmbeddings call that needs more tokens (one per
\* text without a live cache entry) than the 'embedding-global' bucket holds after its
\* refill throws the rate-limit error, makes no provider call, debits nothing and adds
\* no entry to the embedding cache; a call is admitted for all of its uncached texts or
\* for none, and the rate-limit error is thrown in no other case.
C16_RateLimitDenial ==
    [][(ret'.op \in {"generateEmbedding", "generateEmbeddings"} /\ ret'.step = "call" /\ apiKey)
          => LET missing == Missing(embeddingCache, ret'.texts, now)
                 had == Refilled(embeddingRateLimiter, "embedding-global", now)
             IN  /\ (missing # <<>> /\ had < Len(missing))
                      => /\ ret'.phase = "threw"
                         /\ ret'.error = RateLimited
                         /\ ret'.request = <<>>
                         /\ calls'[ret'.caller] = Idle
                         /\ embeddingRateLimiter'.buckets["embedding-global"].tokens = had
                         /\ KeySet(embeddingCache') \subseteq KeySet(embeddingCache)
                 /\ ret'.error = RateLimited => (missing # <<>> /\ had < Len(missing))
                 /\ ret'.request \in {<<>>, missing}]_vars

C16_Witness ==
    /\ ret.op = "generateEmbeddings" /\ ret.step = "call"
    /\ ret.phase = "threw" /\ ret.error = RateLimited
    /\ embeddingRateLimiter.buckets["embedding-global"].tokens >= 1

\* C17: getRemaining(id) changes no bucket (tokens, lastRefill, existence) and returns the
\* count an isAllowed call at the same instant compares with its cost: for every cost,
\* getRemaining(id) >= cost exactly when isAllowed(id, cost) would return true.
C17_GetRemainingReadOnly ==
    [][ret'.op = "getRemaining"
          => /\ limiter' = limiter
             /\ ret'.remaining = Refilled(limiter, ret'.identifier, now)
             /\ \A cost \in 1..MaxCost :
                   (ret'.remaining >= cost)
                     <=> RateLimiter_isAllowed(limiter, ret'.identifier, cost, now).value]_vars

C17_Witness ==
    /\ ret.op = "getRemaining"
    /\ ret.identifier \in DOMAIN limiter.buckets
    /\ limiter.buckets[ret.identifier].tokens < ret.remaining
    /\ ret.remaining < limiter.capacity

\* C18: cleanup() changes no admission result: after a cleanup step, at that instant and
\* at every later one, isAllowed and getRemaining return for every identifier and cost
\* what they would have returned had cleanup not been called.
C18_CleanupEquivalence ==
    [][ret'.op = "cleanup"
          => \A identifier \in Identifiers, t \in now..MaxTime :
                /\ RateLimiter_getRemaining(limiter', identifier, t).value
                     = RateLimiter_getRemaining(limiter, identifier, t).value
                /\ \A cost \in 1..MaxCost :
                      RateLimiter_isAllowed(limiter', identifier, cost, t).value
                        = RateLimiter_isAllowed(limiter, identifier, cost, t).value]_vars

----------------------------------------------------------------------------
(* The memory store under calls that suspend at the embedding provider and  *)
(* at the database                                                           *)

NoTask == [pc |-> "idle"]

DbError == "the database rejected the statement"
\* the arguments of a call; the ones its function does not take are left empty
Args(userId, id, content, metadata, importance, query, limit, threshold) ==
    [userId |-> userId, id |-> id, content |-> content, metadata |-> metadata,
     importance |-> importance, query |-> query, limit |-> limit, threshold |-> threshold]

\* history: the list memoized for the key of a searchMemories call as the call is made,
\* if queryCache then holds an entry for the key that has not expired
Memoized(fn, cacheKey) ==
    IF /\ fn = "searchMemories"
       /\ cacheKey \in DOMAIN memo
       /\ now - EntryOf(queryCache, cacheKey).timestamp <= queryCache.ttl
    THEN <<memo[cacheKey].value>>
    ELSE <<>>

\* history: queryCache as it was when the call was made
Entered(caller) ==
    IF tasks[caller].pc = "idle" THEN queryCache ELSE tasks[caller].entered

\* history: whether the call has suspended at the embedding provider
Awaited(caller, pc) ==
    pc = "embedding" \/ (tasks[caller].pc # "idle" /\ tasks[caller].awaited)

\* A step of a call: it suspends at pc having sent a request (to the provider, or the
\* statement pc names to the database), or it ends, returning value (rows) or found, or
\* throwing error.  hit is whether the step returned from the query cache.
StoreStep(caller, fn, args, phase, pc, embedding, cacheKey, value, found, error, hit) ==
    /\ tasks' = [tasks EXCEPT ![caller] =
                    IF phase = "suspended"
                    THEN [pc |-> pc, fn |-> fn, args |-> args, embedding |-> embedding,
                          cacheKey |-> cacheKey, awaited |-> Awaited(caller, pc),
                          memoized |-> IF tasks[caller].pc = "idle"
                                       THEN Memoized(fn, cacheKey)
                                       ELSE tasks[caller].memoized,
                          entered |-> Entered(caller)]
                    ELSE NoTask]
    /\ ret' = [op |-> fn, caller |-> caller, args |-> args, phase |-> phase,
               sent |-> IF phase = "suspended" THEN pc ELSE "none",
               from |-> tasks[caller].pc,
               awaited |-> Awaited(caller, pc),
               value |-> value, found |-> found, error |-> error, hit |-> hit]
    /\ UNCHANGED <<now, apiKey, calls, origin, provider, cacheVars, limiterVars>>

Suspend(caller, fn, args, pc, embedding, cacheKey) ==
    StoreStep(caller, fn, args, "suspended", pc, embedding, cacheKey, <<>>, FALSE, Absent, FALSE)
Return(caller, fn, args, value, found, hit) ==
    StoreStep(caller, fn, args, "returned", "idle", <<>>, Absent, value, found, Absent, hit)
Throw(caller, fn, args, error) ==
    StoreStep(caller, fn, args, "threw", "idle", <<>>, Absent, <<>>, FALSE, error, FALSE)

\* await generateEmbedding(text) in fn: the call suspends at the provider, or goes on to
\* its statement next with the cached embedding, or fails: searchMemories then falls
\* back, the others throw
Embed(caller, fn, args, text, next, cacheKey) ==
    LET out == generateEmbedding_call(embeddingCache, embeddingRateLimiter, apiKey,
                                      Str(text), now)
    IN  /\ WithinCounts(out.cache)
        /\ embeddingCache' = out.cache
        /\ embeddingRateLimiter' = out.rateLimiter
        /\ CASE out.phase = "awaiting" -> Suspend(caller, fn, args, "embedding", <<>>, cacheKey)
             [] out.phase = "returned" ->
                    Suspend(caller, fn, args, next, <<out.value>>, cacheKey)
             [] out.phase = "threw" ->
                    IF fn = "searchMemories"
                    THEN Suspend(caller, fn, args, "fallback", <<>>, cacheKey)
                    ELSE Throw(caller, fn, args, out.error)

\* the statement a call sends once it has its embedding
NextStatement(fn) ==
    CASE fn = "storeMemory" -> "insert"
      [] fn = "updateMemory" -> "update"
      [] fn = "searchMemories" -> "similar"

\* the text a call embeds
Embedded(task) ==
    IF task.fn = "searchMemories" THEN task.args.query ELSE task.args.content[1]

Call_storeMemory(caller, userId, content, metadata, importance) ==
    /\ tasks[caller].pc = "idle"
    /\ nextId + Cardinality({c \in DOMAIN tasks : tasks[c].pc # "idle"
                                                 /\ tasks[c].fn = "storeMemory"}) <= MaxRows
    /\ Embed(caller, "storeMemory",
             Args(userId, 0, <<content>>, metadata, importance, <<>>, 0, 0),
             content, "insert", Absent)
    /\ UNCHANGED <<db, nextId, queryCache, memoryRateLimiter>>
    /\ UNCHANGED memo

Call_updateMemory(caller, id, userId, content, metadata, importance) ==
    /\ tasks[caller].pc = "idle"
    /\ LET args == Args(userId, id, content, metadata, importance, <<>>, 0, 0)
       IN  IF content # <<>> /\ content[1] # <<>>
           THEN Embed(caller, "updateMemory", args, content[1], "update", Absent)
           ELSE /\ Suspend(caller, "updateMemory", args, "update", <<>>, Absent)
                /\ UNCHANGED <<embeddingCache, embeddingRateLimiter>>
    /\ UNCHANGED <<db, nextId, queryCache, memoryRateLimiter>>
    /\ UNCHANGED memo

Call_deleteMemory(caller, id, userId) ==
    /\ tasks[caller].pc = "idle"
    /\ Suspend(caller, "deleteMemory", Args(userId, id, <<>>, <<>>, <<>>, <<>>, 0, 0),
               "delete", <<>>, Absent)
    /\ UNCHANGED <<db, nextId, queryCache, memoryRateLimiter,
                   embeddingCache, embeddingRateLimiter>>
    /\ UNCHANGED memo

Call_getUserMemories(caller, userId, limit) ==
    /\ tasks[caller].pc = "idle"
    /\ Suspend(caller, "getUserMemories", Args(userId, 0, <<>>, <<>>, <<>>, <<>>, limit, 0),
               "select", <<>>, Absent)
    /\ UNCHANGED <<db, nextId, queryCache, memoryRateLimiter,
                   embeddingCache, embeddingRateLimiter>>
    /\ UNCHANGED memo

Call_searchMemories(caller, userId, query, limit, threshold) ==
    /\ tasks[caller].pc = "idle"
    /\ LET args == Args(userId, 0, <<>>, <<>>, <<>>, query, limit, threshold)
           allowed == RateLimiter_isAllowed(memoryRateLimiter, userId, 1, now)
           cacheKey == hashQuery(userId, query, limit, threshold)
           cached == LRUCache_get(queryCache, cacheKey, now)
       IN  /\ memoryRateLimiter' = allowed.self
           /\ IF ~allowed.value
              THEN /\ Suspend(caller, "searchMemories", args, "fallback", <<>>, cacheKey)
                   /\ UNCHANGED <<queryCache, memo, embeddingCache, embeddingRateLimiter>>
              ELSE /\ WithinCounts(cached.self)
                   /\ queryCache' = cached.self
                   /\ memo' = [k \in KeySet(cached.self) |-> memo[k]]
                   /\ IF Live(queryCache, cacheKey, now)
                      THEN /\ Return(caller, "searchMemories", args, cached.value, FALSE, TRUE)
                           /\ UNCHANGED <<embeddingCache, embeddingRateLimiter>>
                      ELSE Embed(caller, "searchMemories", args, query, "similar", cacheKey)
    /\ UNCHANGED <<db, nextId>>

\* the provider answers the call suspended in generateEmbedding
Resume_embedding(caller, ok, variant) ==
    /\ tasks[caller].pc = "embedding"
    /\ LET task == tasks[caller]
           text == Str(Embedded(task))
           response == [ok |-> ok, data |-> IF ok THEN <<Embedding(text, variant)>> ELSE <<>>]
           out == generateEmbedding_resume(embeddingCache, text, response, now)
       IN  /\ WithinCounts(out.cache)
           /\ embeddingCache' = out.cache
           /\ IF out.phase = "returned"
              THEN Suspend(caller, task.fn, task.args, NextStatement(task.fn),
                           <<out.value>>, task.cacheKey)
              ELSE IF task.fn = "searchMemories"
                   THEN Suspend(caller, task.fn, task.args, "fallback", <<>>, task.cacheKey)
                   ELSE Throw(caller, task.fn, task.args, out.error)
    /\ UNCHANGED <<db, nextId, queryCache, memoryRateLimiter, embeddingRateLimiter>>
    /\ UNCHANGED memo

\* the database answers the INSERT of storeMemory
Resume_insert(caller, ok) ==
    /\ tasks[caller].pc = "insert"
    /\ LET task == tasks[caller]
           done == Db_insert(db, nextId, task.args.userId, task.args.content[1],
                             task.embedding[1],
                             IF task.args.metadata # <<>> THEN task.args.metadata[1] ELSE "{}",
                             IF task.args.importance # <<>> THEN task.args.importance[1]
                                                            ELSE "medium",
                             now)
       IN  IF ok
           THEN /\ db' = done.rows
                /\ nextId' = nextId + 1
                /\ Return(caller, task.fn, task.args, done.returning, FALSE, FALSE)
           ELSE /\ UNCHANGED <<db, nextId>>
                /\ Throw(caller, task.fn, task.args, DbError)
    /\ UNCHANGED <<queryCache, memoryRateLimiter, embeddingCache, embeddingRateLimiter>>
    /\ UNCHANGED memo

\* the database answers the UPDATE of updateMemory
Resume_update(caller, ok) ==
    /\ tasks[caller].pc = "update"
    /\ LET task == tasks[caller]
           done == Db_update(db, task.args.id, task.args.userId, task.args.content,
                             task.embedding, task.args.metadata, task.args.importance, now)
       IN  IF ok
           THEN /\ db' = done.rows
                /\ \E value \in Orderings(done.returning, [r \in done.returning |-> 0]) :
                      Return(caller, task.fn, task.args, value, FALSE, FALSE)
           ELSE /\ UNCHANGED db
                /\ Throw(caller, task.fn, task.args, DbError)
    /\ UNCHANGED <<nextId, queryCache, memoryRateLimiter, embeddingCache, embeddingRateLimiter>>
    /\ UNCHANGED memo

\* the database answers the DELETE of deleteMemory
Resume_delete(caller, ok) ==
    /\ tasks[caller].pc = "delete"
    /\ LET task == tasks[caller]
           done == Db_delete(db, task.args.id, task.args.userId)
       IN  IF ok
           THEN /\ db' = done.rows
                /\ Return(caller, task.fn, task.args, <<>>, Cardinality(done.returning) > 0,
                          FALSE)
           ELSE /\ UNCHANGED db
                /\ Throw(caller, task.fn, task.args, DbError)
    /\ UNCHANGED <<nextId, queryCache, memoryRateLimiter, embeddingCache, embeddingRateLimiter>>
    /\ UNCHANGED memo

\* the database answers the SELECT of getUserMemories
Resume_select(caller, ok) ==
    /\ tasks[caller].pc = "select"
    /\ LET task == tasks[caller]
       IN  IF ok
           THEN \E results \in Db_selectRecent(db, task.args.userId, task.args.limit) :
                   Return(caller, task.fn, task.args, results, FALSE, FALSE)
           ELSE Throw(caller, task.fn, task.args, DbError)
    /\ UNCHANGED <<db, nextId, queryCache, memoryRateLimiter,
                   embeddingCache, embeddingRateLimiter>>
    /\ UNCHANGED memo

\* the database answers the similarity SELECT of searchMemories
Resume_similar(caller, ok) ==
    /\ tasks[caller].pc = "similar"
    /\ LET task == tasks[caller]
       IN  IF ok
           THEN \E results \in Db_similar(db, task.args.userId, task.embedding[1],
                                          task.args.threshold, task.args.limit) :
                   LET cache == LRUCache_set(queryCache, task.cacheKey, results, now)
                   IN  /\ WithinCounts(cache)
                       /\ queryCache' = cache
                       /\ memo' = [k \in KeySet(cache) |->
                                      IF k = task.cacheKey
                                      THEN [args |-> task.args, value |-> results]
                                      ELSE memo[k]]
                       /\ Return(caller, task.fn, task.args, results, FALSE, FALSE)
           ELSE /\ UNCHANGED <<queryCache, memo>>
                /\ Suspend(caller, task.fn, task.args, "fallback", <<>>, task.cacheKey)
    /\ UNCHANGED <<db, nextId, memoryRateLimiter, embeddingCache, embeddingRateLimiter>>

\* Resume_fallback caching the list it returns under the call's key
Resume_fallback_Cached(caller, ok) ==
    /\ tasks[caller].pc = "fallback"
    /\ LET task == tasks[caller]
       IN  IF ok
           THEN \E results \in Db_selectRecent(db, task.args.userId, task.args.limit) :
                   LET value == fallbackTextSearch_map(results, task.args.query)
                       cache == LRUCache_set(queryCache, task.cacheKey, value, now)
                   IN  /\ WithinCounts(cache)
                       /\ queryCache' = cache
                       /\ memo' = [k \in KeySet(cache) |->
                                      IF k \in DOMAIN memo THEN memo[k]
                                      ELSE [args |-> task.args, value |-> <<>>]]
                       /\ Return(caller, task.fn, task.args, value, FALSE, FALSE)
           ELSE /\ UNCHANGED <<queryCache, memo>>
                /\ Throw(caller, task.fn, task.args, DbError)
    /\ UNCHANGED <<db, nextId, memoryRateLimiter, embeddingCache, embeddingRateLimiter>>

\* the database answers the SELECT of fallbackTextSearch
Resume_fallback(caller, ok) ==
    /\ tasks[caller].pc = "fallback"
    /\ LET task == tasks[caller]
       IN  IF ok
           THEN \E results \in Db_selectRecent(db, task.args.userId, task.args.limit) :
                   Return(caller, task.fn, task.args,
                          fallbackTextSearch_map(results, task.args.query), FALSE, FALSE)
           ELSE Throw(caller, task.fn, task.args, DbError)
    /\ UNCHANGED <<db, nextId, queryCache, memoryRateLimiter,
                   embeddingCache, embeddingRateLimiter>>
    /\ UNCHANGED memo

\* the state of the process as it starts, with an empty table; the embedding gateway
\* admits capacity calls
InitStore(callers, capacity) ==
    /\ now = 0
    /\ ret = NoCall
    /\ CacheUnused
    /\ LimiterUnused
    /\ apiKey \in BOOLEAN
    /\ embeddingCache = LRUCache(EmbeddingCacheSize, MaxTtl)
    /\ embeddingRateLimiter = RateLimiter(capacity, EmbeddingRefillRate, MaxWindow)
    /\ calls = EmptyMap
    /\ origin = EmptyMap
    /\ provider = NoProvider
    /\ db = {}
    /\ nextId = 1
    /\ queryCache = LRUCache(QueryCacheSize, MaxTtl)
    /\ memoryRateLimiter = RateLimiter(MaxCapacity, MemoryRefillRate, MaxWindow)
    /\ memo = EmptyMap
    /\ tasks = [c \in callers |-> NoTask]

Option(values) == {<<>>} \cup {<<v>> : v \in values}

\* the provider's answers to the calls of the memory store
Answers == {"e1"}

(* Searching: one caller stores memories of one user and searches them as time passes *)

InitSearch == InitStore({"c1"}, MaxCapacity)

NextSearch ==
    \/ Tick
    \/ \E caller \in DOMAIN tasks, userId \in {"u1"}, content \in Contents :
          Call_storeMemory(caller, userId, content, <<>>, <<>>)
    \/ \E caller \in DOMAIN tasks, userId \in {"u1"}, query \in Queries,
          limit \in Limits, threshold \in Thresholds :
          Call_searchMemories(caller, userId, query, limit, threshold)
    \/ \E caller \in DOMAIN tasks, ok \in BOOLEAN, variant \in Answers :
          Resume_embedding(caller, ok, variant)
    \/ \E caller \in DOMAIN tasks, ok \in BOOLEAN : Resume_insert(caller, ok)
    \/ \E caller \in DOMAIN tasks, ok \in BOOLEAN : Resume_similar(caller, ok)
    \/ \E caller \in DOMAIN tasks, ok \in BOOLEAN : Resume_fallback(caller, ok)

SpecSearch == InitSearch /\ [][NextSearch]_vars

(* Reading: one caller stores memories of two users, lists them and searches them, *)
(* all within one millisecond *)

InitReaders == InitStore({"c1"}, MaxCapacity)

NextReaders ==
    \/ \E caller \in DOMAIN tasks, userId \in UserIds, content \in Contents :
          Call_storeMemory(caller, userId, content, <<>>, <<>>)
    \/ \E caller \in DOMAIN tasks, userId \in UserIds, limit \in Limits :
          Call_getUserMemories(caller, userId, limit)
    \/ \E caller \in DOMAIN tasks, userId \in UserIds, query \in Queries,
          limit \in Limits, threshold \in Thresholds :
          Call_searchMemories(caller, userId, query, limit, threshold)
    \/ \E caller \in DOMAIN tasks, ok \in BOOLEAN, variant \in Answers :
          Resume_embedding(caller, ok, variant)
    \/ \E caller \in DOMAIN tasks, ok \in BOOLEAN : Resume_insert(caller, ok)
    \/ \E caller \in DOMAIN tasks, ok \in BOOLEAN : Resume_select(caller, ok)
    \/ \E caller \in DOMAIN tasks, ok \in BOOLEAN : Resume_similar(caller, ok)
    \/ \E caller \in DOMAIN tasks, ok \in BOOLEAN : Resume_fallback(caller, ok)

SpecReaders == InitReaders /\ [][NextReaders]_vars

(* Deleting: one caller stores memories of two users and deletes them, all within *)
(* one millisecond *)

InitOwner == InitStore({"c1"}, MaxCapacity)

NextOwner ==
    \/ \E caller \in DOMAIN tasks, userId \in UserIds, content \in Contents :
          Call_storeMemory(caller, userId, content, <<>>, <<>>)
    \/ \E caller \in DOMAIN tasks, id \in 1..MaxRows, userId \in UserIds :
          Call_deleteMemory(caller, id, userId)
    \/ \E caller \in DOMAIN tasks, ok \in BOOLEAN, variant \in Answers :
          Resume_embedding(caller, ok, variant)
    \/ \E caller \in DOMAIN tasks, ok \in BOOLEAN : Resume_insert(caller, ok)
    \/ \E caller \in DOMAIN tasks, ok \in BOOLEAN : Resume_delete(caller, ok)

SpecOwner == InitOwner /\ [][NextOwner]_vars

(* Patching: one caller stores memories of one user and updates their fields in the *)
(* name of either user, all within one millisecond *)

InitPatch == InitStore({"c1"}, MaxCapacity)

NextPatch ==
    \/ \E caller \in DOMAIN tasks, userId \in {"u1"}, content \in Contents,
          metadata \in Option(Metadatas), importance \in Option(Importances) :
          Call_storeMemory(caller, userId, content, metadata, importance)
    \/ \E caller \in DOMAIN tasks, id \in 1..MaxRows, userId \in UserIds,
          content \in Option(Contents \cup {<<>>}),
          metadata \in Option(Metadatas), importance \in Option(Importances) :
          Call_updateMemory(caller, id, userId, content, metadata, importance)
    \/ \E caller \in DOMAIN tasks, ok \in BOOLEAN, variant \in Answers :
          Resume_embedding(caller, ok, variant)
    \/ \E caller \in DOMAIN tasks, ok \in BOOLEAN : Resume_insert(caller, ok)
    \/ \E caller \in DOMAIN tasks, ok \in BOOLEAN : Resume_update(caller, ok)

SpecPatch == InitPatch /\ [][NextPatch]_vars

(* Updating: two callers store memories of one user and change their content, their *)
(* calls interleaving, all within one millisecond *)

InitUpdates == InitStore({"c1", "c2"}, UpdatesCapacity)

NextUpdates ==
    \/ \E caller \in DOMAIN tasks, userId \in {"u1"}, content \in Contents :
          Call_storeMemory(caller, userId, content, <<>>, <<>>)
    \/ \E caller \in DOMAIN tasks, id \in 1..MaxRows, userId \in {"u1"},
          content \in Option(Contents \cup {<<>>}) :
          Call_updateMemory(caller, id, userId, content, <<>>, <<>>)
    \/ \E caller \in DOMAIN tasks, ok \in BOOLEAN, variant \in Answers :
          Resume_embedding(caller, ok, variant)
    \/ \E caller \in DOMAIN tasks, ok \in BOOLEAN : Resume_insert(caller, ok)
    \/ \E caller \in DOMAIN tasks, ok \in BOOLEAN : Resume_update(caller, ok)

SpecUpdates == InitUpdates /\ [][NextUpdates]_vars

----------------------------------------------------------------------------
(* C14  Owner isolation on delete *)

\* the step in which the database answers the statement pc of a call of fn, which then
\* returns
Answered(fn, pc) ==
    /\ ret'.op = fn
    /\ ret'.from = pc
    /\ ret'.phase = "returned"
    /\ tasks[ret'.caller].pc = pc

\* C14: deleteMemory(id, userId) removes the row with that id when its owner is userId,
\* and returns true; when the row is owned by another user it returns false and leaves
\* every row as it was, which is what it does for an id no row has.
C14_OwnerIsolationOnDelete ==
    [][Answered("deleteMemory", "delete") =>
          LET args == ret'.args
              row == {r \in db : r.id = args.id}
              own == {r \in row : r.userId = args.userId}
          IN  /\ own # {} => ret'.found /\ db' = db \ own
              /\ own = {} => ~ret'.found /\ db' = db
              /\ (row # {} /\ own = {}) => row \subseteq db']_vars

\* deleteMemory has returned false for a row owned by a different user, and the row is
\* still there
C14_Witness ==
    /\ ret.op = "deleteMemory"
    /\ ret.phase = "returned"
    /\ ~ret.found
    /\ \E r \in db : r.id = ret.args.id /\ r.userId # ret.args.userId

----------------------------------------------------------------------------
(* C11  Search cache hit *)

\* the step in which a call of fn is made
Called(fn) ==
    /\ ret'.op = fn
    /\ ret'.from = "idle"
    /\ tasks[ret'.caller].pc = "idle"

\* the key searchMemories looks its arguments up under
KeyOf(args) == hashQuery(args.userId, args.query, args.limit, args.threshold)

\* the token count a rate limiter has for identifier at t
TokenCount(self, identifier, t) == Refilled(self, identifier, t)

\* C11: when queryCache holds a live entry for (userId, query, limit, threshold),
\* searchMemories returns the cached list without checking a rate limiter, calling the
\* embedding provider or querying the database, and no rate limiter's token count
\* changes during the call.
C11_SearchCacheHit ==
    [][(Called("searchMemories") /\ Live(queryCache, KeyOf(ret'.args), now))
          => /\ ret'.phase = "returned"
             /\ ret'.value = EntryOf(queryCache, KeyOf(ret'.args)).value
             /\ ret'.sent = "none"
             /\ \A identifier \in UserIds :
                   TokenCount(memoryRateLimiter', identifier, now)
                      = TokenCount(memoryRateLimiter, identifier, now)
             /\ TokenCount(embeddingRateLimiter', "embedding-global", now)
                   = TokenCount(embeddingRateLimiter, "embedding-global", now)]_vars

----------------------------------------------------------------------------
(* C12  Search memoization *)

\* C12: after a searchMemories call that completed through the similarity path, a later
\* call with the same (userId, query, limit, threshold) made while the entry is still
\* in queryCache, neither expired nor evicted, returns the list that call returned and
\* issues no similarity query, whatever has been stored since.
C12_SearchMemoization ==
    [][ret'.op = "searchMemories"
          => LET expected == IF ret'.from = "idle"
                             THEN Memoized("searchMemories", KeyOf(ret'.args))
                             ELSE tasks[ret'.caller].memoized
             IN  expected # <<>>
                    => /\ ret'.sent # "similar"
                       /\ ret'.phase # "threw"
                       /\ ret'.phase = "returned" => ret'.value = expected[1]]_vars

----------------------------------------------------------------------------
(* C13  Fallback activation *)

\* row of the table that result gives the columns of
RowOf(result) ==
    Row(result.id, result.userId, result.content, result.embedding, result.metadata,
        result.importance, result.createdAt, result.updatedAt)

\* value is userId's most recent memories, at most limit of them, most recent first
MostRecent(value, rows, userId, limit) ==
    LET own == {r \in rows : r.userId = userId}
        got == {RowOf(value[k]) : k \in 1..Len(value)}
    IN  /\ Len(value) = Min(limit, Cardinality(own))
        /\ Cardinality(got) = Len(value)
        /\ got \subseteq own
        /\ \A k \in 1..Len(value) : \A r \in own \ got : r.createdAt <= value[k].createdAt
        /\ \A j, k \in 1..Len(value) : j < k => value[j].createdAt >= value[k].createdAt

\* C13: searchMemories never raises to its caller; when embedding generation or the
\* similarity query fails it returns the lexical fallback: the user's most recent
\* memories, at most limit of them, each scored 0.8 when its content contains the query
\* case-insensitively and 0.5 otherwise.
C13_FallbackActivation ==
    [][ret'.op = "searchMemories"
          => /\ ret'.phase # "threw"
             /\ (ret'.from \in {"embedding", "similar"} /\ ret'.phase = "suspended"
                 /\ ret'.sent # "similar")
                   => ret'.sent = "fallback"
             /\ (ret'.from = "fallback" /\ ret'.phase = "returned")
                   => /\ MostRecent(ret'.value, db, ret'.args.userId, ret'.args.limit)
                      /\ \A k \in 1..Len(ret'.value) :
                            ret'.value[k].similarity
                               = IF includes(toLowerCase(ret'.value[k].content),
                                             toLowerCase(ret'.args.query))
                                 THEN 80 ELSE 50]_vars

----------------------------------------------------------------------------
(* C15  No cross-user visibility *)

\* C15: searchMemories and getUserMemories called with userId return only memories
\* owned by userId, whether the list comes from the similarity query, from queryCache
\* or from the lexical fallback; and a list returned from queryCache was cached by a
\* search made with the same userId.
C15_NoCrossUserVisibility ==
    [][(ret'.op \in {"searchMemories", "getUserMemories"} /\ ret'.phase = "returned")
          => /\ \A k \in 1..Len(ret'.value) :
                   /\ ret'.value[k].userId = ret'.args.userId
                   /\ RowOf(ret'.value[k]) \in {r \in db : r.userId = ret'.args.userId}
                         \/ ret'.hit
             /\ ret'.hit => /\ memo[KeyOf(ret'.args)].args.userId = ret'.args.userId
                            /\ ret'.value = memo[KeyOf(ret'.args)].value]_vars

\* a search has returned memories from queryCache while the table holds a memory of
\* another user
C15_Witness ==
    /\ ret.op = "searchMemories"
    /\ ret.phase = "returned"
    /\ ret.hit
    /\ ret.value # <<>>
    /\ \E r \in db : r.userId # ret.args.userId

----------------------------------------------------------------------------
(* C19  Update patch semantics *)

\* row after is row before with exactly the supplied ones of content, metadata and
\* importance overwritten, and the embedding with the content; the update timestamp is
\* the statement's own
Patched(before, after, args) ==
    /\ after.id = before.id
    /\ after.userId = before.userId
    /\ after.createdAt = before.createdAt
    /\ after.content = IF args.content # <<>> THEN args.content[1] ELSE before.content
    /\ after.metadata = IF args.metadata # <<>> THEN args.metadata[1] ELSE before.metadata
    /\ after.importance = IF args.importance # <<>> THEN args.importance[1]
                                                    ELSE before.importance
    /\ IF args.content # <<>>
       THEN TextOf(after.embedding) = args.content[1]
       ELSE after.embedding = before.embedding

\* C19: updateMemory(id, userId, ...) overwrites exactly those of content, metadata and
\* importance that the call supplies, and the embedding when content is supplied, and
\* leaves every field not supplied unchanged; when the row with that id is not owned by
\* userId it returns null and changes no row.
C19_UpdatePatchSemantics ==
    [][Answered("updateMemory", "update") =>
          LET args == ret'.args
              own == {r \in db : r.id = args.id /\ r.userId = args.userId}
          IN  /\ own = {} => ret'.value = <<>> /\ db' = db
              /\ \A before \in own :
                    /\ Len(ret'.value) = 1
                    /\ Patched(before, ret'.value[1], args)
                    /\ db' = (db \ {before}) \cup {ret'.value[1]}]_vars

----------------------------------------------------------------------------
(* C20  Embedding follows content *)

\* C20: in every state reached by any interleaving of storeMemory and updateMemory
\* calls, two concurrent updates of one memory id that suspend at the embedding call
\* included, every stored memory's embedding is the embedding of its current content.
C20_EmbeddingFollowsContent ==
    \A r \in db : \E variant \in Vectors : r.embedding = Embedding(Str(r.content), variant)

\* an update that suspended at the embedding call has changed a memory's content while
\* another update of the same memory to another content, which suspended there too, has
\* its embedding and waits for the database
C20_Witness ==
    /\ ret.op = "updateMemory"
    /\ ret.phase = "returned"
    /\ ret.awaited
    /\ ret.value # <<>>
    /\ \E c \in DOMAIN tasks \ {ret.caller} :
          /\ tasks[c].pc = "update"
          /\ tasks[c].awaited
          /\ tasks[c].args.id = ret.args.id
          /\ tasks[c].args.userId = ret.args.userId
          /\ tasks[c].args.content # ret.args.content

----------------------------------------------------------------------------
(* C22  Invalid capacity is rejected *)

\* C22: constructing an LRUCache with a capacity of 0 or a negative capacity fails, so
\* no cache with maxSize <= 0 ever accepts a set.
C22_InvalidCapacityRejected ==
    [][ret'.op = "set" => lru.maxSize >= 1]_vars

----------------------------------------------------------------------------
(* C23  TTL of 0 disables caching *)

\* C23: in an LRUCache with ttl = 0, a get or a has of a key that follows a set of that
\* key reports the key absent, also when no time has passed since the set.
C23_ZeroTtlDisablesCaching ==
    [][(lru.ttl = 0 /\ ret'.op \in {"get", "has"} /\ ret'.key \in DOMAIN written)
          => /\ ret'.value = Absent
             /\ ~ret'.found]_vars

----------------------------------------------------------------------------
(* C24  A get hit refreshes the timestamp *)

\* C24: a get hit refreshes the entry's timestamp as well as its position, so that an
\* entry read by get at intervals no longer than ttl is never reported absent by
\* expiry: after a hit now, a get at any instant up to now + ttl hits again.
C24_GetRefreshesTimestamp ==
    [][(ret'.op = "get" /\ ret'.found)
          => /\ EntryOf(lru', ret'.key).timestamp = now
             /\ \A t \in now..(now + lru.ttl) :
                   LRUCache_get(lru', ret'.key, t).value = ret'.value]_vars

\* ---------------------------------------------------------------------------------------
\* Refill credit across checks (RateLimiter.isAllowed, lines 39-46)
\* ---------------------------------------------------------------------------------------

\* C28: refill credit is not lost between checks: when isAllowed returns at time now for a
\* bucket created at t0 that every check since has left under capacity, the tokens those
\* checks added to it total floor((now - t0) * refillRate), refillRate in tokens per second
\* and the times in milliseconds, however many checks were made in between and whenever.
C28_RefillCreditNotLost ==
    \A i \in Identifiers :
        (ret.op = "isAllowed" /\ ret.identifier = i /\ credit[i].t0 >= 0 /\ credit[i].below)
            => credit[i].added = ((now - credit[i].t0) * limiter.refillRate) \div 1000

\* ---------------------------------------------------------------------------------------
\* A search denied by the memory rate limiter (searchMemories, lines 79-83 and 122-126)
\* ---------------------------------------------------------------------------------------

\* the error searchMemories raises when memoryRateLimiter denies the call (line 82)
SearchRateLimitError == "Rate limit exceeded for memory search. Please try again later."

\* C30: when memoryRateLimiter denies a searchMemories call, the call makes no provider
\* call and no database query, and its caller receives the rate-limit error: the step at
\* which the call is made ends the call by throwing that error, nothing sent.
C30_DenialSurfaced ==
    [][(/\ ret'.op = "searchMemories"
        /\ ret'.from = "idle"
        /\ ~RateLimiter_isAllowed(memoryRateLimiter, ret'.args.userId, 1, now).value)
          => /\ ret'.phase = "threw"
             /\ ret'.sent = "none"
             /\ ret'.error = SearchRateLimitError]_vars

\* ---------------------------------------------------------------------------------------
\* The threshold of a search (searchMemories, lines 98-114; fallbackTextSearch, 132-155)
\* ---------------------------------------------------------------------------------------

\* C29 as stated: every entry of every list searchMemories returns has a similarity of at
\* least the call's threshold, whether the list comes from the similarity query, from
\* queryCache or from the lexical fallback.
C29_ThresholdOnEveryPath ==
    [][(ret'.op = "searchMemories" /\ ret'.phase = "returned")
          => \A k \in 1..Len(ret'.value) :
                ret'.value[k].similarity >= ret'.args.threshold]_vars

\* C29: every entry of a list searchMemories returns from the similarity query or from
\* queryCache has a similarity of at least the call's threshold; the entries of a list
\* returned by the lexical fallback are scored 0.8 or 0.5 whatever the threshold.
C29_ThresholdOnSimilarityPath ==
    [][(ret'.op = "searchMemories" /\ ret'.phase = "returned")
          => \A k \in 1..Len(ret'.value) :
                IF ret'.from = "fallback"
                THEN ret'.value[k].similarity \in {80, 50}
                ELSE ret'.value[k].similarity >= ret'.args.threshold]_vars

\* a search has returned, from the similarity query, fewer memories than its limit while
\* the table holds more memories of the user: the threshold kept one out
C29_Witness ==
    /\ ret.op = "searchMemories"
    /\ ret.phase = "returned"
    /\ ret.from = "similar"
    /\ Len(ret.value) >= 1
    /\ Len(ret.value) < ret.args.limit
    /\ Cardinality({r \in db : r.userId = ret.args.userId}) > Len(ret.value)

\* a search has returned a list of one memory or more from queryCache
C29_WitnessHit ==
    ret.op = "searchMemories" /\ ret.phase = "returned" /\ ret.hit /\ Len(ret.value) >= 1

\* ---------------------------------------------------------------------------------------
\* The fallback and the query cache (searchMemories, lines 116-126)
\* ---------------------------------------------------------------------------------------

\* C21 as stated: a searchMemories call that returns the results of the lexical fallback
\* leaves the query cache unchanged: as the call returns, queryCache is as it was when the
\* call was made.
C21_FallbackLeavesCacheUnchanged ==
    [][(ret'.op = "searchMemories" /\ ret'.phase = "returned" /\ ret'.from = "fallback")
          => queryCache' = tasks[ret'.caller].entered]_vars

\* C21: fallback results are not cached.  The step at which searchMemories returns the
\* results of the lexical fallback writes nothing to queryCache, and as the call returns
\* queryCache is as it was when the call was made, but for the entry of the call's own
\* key when that entry had expired, which the call's lookup removed; so it holds no live
\* entry for the call's key unless it held one before, and a later call with the same
\* arguments is not answered with the fallback list: a list returned from queryCache is one
\* that the similarity path stored.
C21_FallbackNotCached ==
    [][/\ (ret'.op = "searchMemories" /\ ret'.phase = "returned" /\ ret'.from = "fallback")
            => LET entered == tasks[ret'.caller].entered
                   cacheKey == tasks[ret'.caller].cacheKey
               IN  /\ queryCache' = queryCache
                   /\ \/ queryCache' = entered
                      \/ /\ cacheKey \in KeySet(entered)
                         /\ ~Live(entered, cacheKey, now)
                         /\ queryCache' = LRUCache_delete(entered, cacheKey).self
       /\ (ret'.op = "searchMemories" /\ ret'.hit)
            => ret'.value = memo[KeyOf(ret'.args)].value]_vars

\* a search has returned the results of the lexical fallback, one memory or more, while
\* queryCache holds the list of a search with other arguments and nothing for its key
C21_Witness ==
    /\ ret.op = "searchMemories"
    /\ ret.phase = "returned"
    /\ ret.from = "fallback"
    /\ Len(ret.value) >= 1
    /\ KeySet(queryCache) # {}
    /\ KeyOf(ret.args) \notin KeySet(queryCache)

----------------------------------------------------------------------------
(* The middleware's rate limiting of API routes (middleware.ts, lines 10-75; *)
(* lib/security/rate-limit.ts).  Pathnames are sequences of characters.      *)

\* the limits middleware gives rateLimit, and the window of every limiter of the map
ApiCapacity == 100
ApiRefillRate == 10
ChatCapacity == 50
ChatRefillRate == 5
FilesCapacity == 20
FilesRefillRate == 2
ApiWindowMs == 60000

\* String.prototype.startsWith
startsWith(text, prefix) ==
    Len(prefix) <= Len(text) /\ SubSeq(text, 1, Len(prefix)) = prefix

Path_ping == <<"/", "p", "i", "n", "g">>
Path_root == <<"/">>
Path_login == <<"/", "l", "o", "g", "i", "n">>
Path_api == <<"/", "a", "p", "i", "/">>
Path_apiAuth == Path_api \o <<"a", "u", "t", "h">>
Path_apiChat == Path_api \o <<"c", "h", "a", "t">>
Path_apiFiles == Path_api \o <<"f", "i", "l", "e", "s">>
Path_next == <<"/", "_", "n", "e", "x", "t">>
Path_favicon == <<"/", "f", "a", "v", "i", "c", "o", "n", ".", "i", "c", "o">>

\* the pathnames requested: the chat route, a chat under it, the health check and a page
Pathnames ==
    {Path_apiChat, Path_apiChat \o <<"/", "1">>, Path_ping, Path_login}
\* the session tokens a request may carry: none, a guest's, a registered user's
Tokens == {"none", "guest", "regular"}
\* the headers of the requests: they all come from one signed-in user
RequestHeaders == {[userId |-> <<"u1">>, forwardedFor |-> <<>>, realIp |-> <<>>, ip |-> <<>>]}

\* getRateLimiter with the limiters of the map keyed by the limits alone
getRateLimiter_PerLimits(map, route, capacity, refillRate) ==
    LET key == ToString(capacity) \o ":" \o ToString(refillRate)
    IN  [key |-> key,
         limiter |-> IF key \in DOMAIN map THEN map[key]
                     ELSE RateLimiter(capacity, refillRate, ApiWindowMs)]

\* getRateLimiter: the limiter of the map under `${route}:${capacity}:${refillRate}`,
\* constructed when the map has none
getRateLimiter(map, route, capacity, refillRate) ==
    LET key == Str(route) \o ":" \o ToString(capacity) \o ":" \o ToString(refillRate)
    IN  [key |-> key,
         limiter |-> IF key \in DOMAIN map THEN map[key]
                     ELSE RateLimiter(capacity, refillRate, ApiWindowMs)]

\* getClientId: the user id of the session, or else the address
getClientId(headers) ==
    IF headers.userId # <<>> THEN "user:" \o headers.userId[1]
    ELSE "ip:" \o (IF headers.forwardedFor # <<>> THEN headers.forwardedFor[1]
                   ELSE IF headers.realIp # <<>> THEN headers.realIp[1]
                   ELSE IF headers.ip # <<>> THEN headers.ip[1]
                   ELSE "unknown")

\* rateLimit: the map after the check, and the 429 response or null (status 0)
rateLimit(map, headers, route, capacity, refillRate, t) ==
    LET got == getRateLimiter(map, route, capacity, refillRate)
        clientId == getClientId(headers)
        allowed == RateLimiter_isAllowed(got.limiter, clientId, 1, t)
        remaining == RateLimiter_getRemaining(allowed.self, clientId, t).value
    IN  [map |-> [k \in DOMAIN map \cup {got.key} |->
                     IF k = got.key THEN allowed.self ELSE map[k]],
         status |-> IF allowed.value THEN 0 ELSE 429,
         remaining |-> IF allowed.value THEN 0 ELSE remaining]

\* middleware: the response's status (200 pong, 429, 307 for a redirect) or "next"
Middleware(pathname, headers, token) ==
    LET api == startsWith(pathname, Path_api)
        capacity == IF startsWith(pathname, Path_apiChat) THEN ChatCapacity
                    ELSE IF startsWith(pathname, Path_apiFiles) THEN FilesCapacity
                    ELSE ApiCapacity
        refillRate == IF startsWith(pathname, Path_apiChat) THEN ChatRefillRate
                      ELSE IF startsWith(pathname, Path_apiFiles) THEN FilesRefillRate
                      ELSE ApiRefillRate
        skipped == \/ startsWith(pathname, Path_ping)
                   \/ pathname = Path_root
                   \/ startsWith(pathname, Path_apiAuth)
                   \/ startsWith(pathname, Path_next)
                   \/ pathname = Path_favicon
        limited == rateLimit(apiRateLimiters, headers, pathname, capacity, refillRate, now)
        checked == api /\ ~skipped
        status == IF startsWith(pathname, Path_ping) THEN "200"
                  ELSE IF skipped THEN "next"
                  ELSE IF checked /\ limited.status = 429 THEN "429"
                  ELSE IF token = "none" THEN "307"
                  ELSE IF token = "regular" /\ pathname = Path_login THEN "307"
                  ELSE "next"
        clientId == getClientId(headers)
    IN  /\ apiRateLimiters' = IF checked THEN limited.map ELSE apiRateLimiters
        /\ passed' = IF startsWith(pathname, Path_apiChat) /\ status # "429"
                       THEN [c \in DOMAIN passed \cup {clientId} |->
                                IF c = clientId
                                THEN (IF c \in DOMAIN passed THEN passed[c] ELSE 0) + 1
                                ELSE passed[c]]
                       ELSE passed
        /\ ret' = [op |-> "middleware", pathname |-> pathname, clientId |-> clientId,
                   status |-> status,
                   remaining |-> IF status = "429" THEN limited.remaining ELSE 0]
        /\ UNCHANGED <<now, limiter, burst, credit, cacheVars, gatewayVars, storeVars>>

\* the process as it starts: no limiter in the map; the requests all arrive at time 0
InitMiddleware ==
    /\ now = 0
    /\ ret = NoCall
    /\ CacheUnused
    /\ GatewayUnused
    /\ StoreUnused
    /\ limiter = RateLimiter(1, 0, 0) /\ burst = EmptyMap /\ credit = EmptyMap
    /\ apiRateLimiters = EmptyMap
    /\ passed = EmptyMap

NextMiddleware ==
    \E pathname \in Pathnames, headers \in RequestHeaders, token \in Tokens :
        Middleware(pathname, headers, token)

SpecMiddleware == InitMiddleware /\ [][NextMiddleware]_vars

\* C25: per-client chat API limit: of the requests one client makes to paths starting
\* with /api/chat in a burst during which no time elapses, the middleware admits at most
\* 50, whatever paths under /api/chat they use, and answers every further one with 429.
C25_ChatLimitPerClient ==
    \A c \in DOMAIN passed : passed[c] <= ChatCapacity

\* ---------------------------------------------------------------------------------------
\* The gateway under interleaved calls (generateEmbedding, lines 79-107; generateEmbeddings)
\* ---------------------------------------------------------------------------------------

\* C26: one provider call per text under interleaving: whatever the interleaving of the
\* generateEmbedding calls on a text, which suspend at the provider call and resume
\* later, the provider is called once for the text and one token is debited; so no two
\* calls are ever suspended at the provider call for the same text, each having debited a
\* token and sent it.
C26_OneProviderCallPerText ==
    \A c1, c2 \in DOMAIN calls :
        (/\ c1 # c2
         /\ calls[c1].pc = "awaiting" /\ calls[c1].fn = "generateEmbedding"
         /\ calls[c2].pc = "awaiting" /\ calls[c2].fn = "generateEmbedding")
            => calls[c1].texts # calls[c2].texts

\* C27: the quota holds under interleaving: with generateEmbedding and generateEmbeddings
\* calls of two callers suspended and resumed in any order, the texts sent to the
\* provider up to now number at most capacity + floor((now - t0) * refillRate), t0 being
\* when the 'embedding-global' bucket was created, refillRate in tokens per second and the
\* times in milliseconds; and none is sent before the bucket exists.
C27_QuotaUnderInterleaving ==
    IF provider.t0 < 0
    THEN provider.sent = 0
    ELSE provider.sent <= embeddingRateLimiter.capacity
                             + ((now - provider.t0) * embeddingRateLimiter.refillRate) \div 1000

\* both callers are suspended at the provider call, one in generateEmbeddings with a
\* request of two texts and one in generateEmbedding, admitted after a refill: the texts
\* sent number more than capacity and as many as the quota allows
C27_Witness ==
    /\ \E c1, c2 \in DOMAIN calls :
          /\ calls[c1].pc = "awaiting" /\ calls[c1].fn = "generateEmbeddings"
          /\ Len(calls[c1].request) = 2
          /\ calls[c2].pc = "awaiting" /\ calls[c2].fn = "generateEmbedding"
    /\ provider.t0 >= 0
    /\ provider.sent > embeddingRateLimiter.capacity
    /\ provider.sent = embeddingRateLimiter.capacity
                          + ((now - provider.t0) * embeddingRateLimiter.refillRate) \div 1000

====
